---------------------------- MODULE Spec2Model ----------------------------
(***************************************************************************)
(* Model of the deep-research engine: the orchestrator graph               *)
(* (plan -> dispatch -> critique -> synthesize), the researcher graph      *)
(* (search -> scrape_index -> retrieve -> reflect -> summarize), and the   *)
(* session manager with its "current session" pointer.                     *)
(*                                                                         *)
(* A graph node is an operator from the state record (and the inputs the   *)
(* node receives from the outside: researcher outcomes, model responses)   *)
(* to the state record after the node's partial update has been merged.    *)
(* Keys a node reads with state.get(key, default) before any node wrote    *)
(* them are present from the start with that default.                      *)
(***************************************************************************)
EXTENDS Integers, Sequences, FiniteSets, TLC

(***************************************************************************)
(* Bounds of the model.                                                    *)
(***************************************************************************)
MaxPlanTopics == 2
RunsCap == 4

(***************************************************************************)
(* Program constants.                                                      *)
(***************************************************************************)
STANDARD_MAX_SEARCHES == 5
DEEP_MAX_SEARCHES == 8
batch_size == 3
MAX_RETRY_ATTEMPT == 3
CONFIDENCE_THRESHOLD == 60
CRITIQUE_ITERATION_CAP == 4
MAX_FOLLOWUP_TOPICS == 3
MAX_NEW_TOPICS == 2

Topics == {"t1", "t2"}

\* DEPTH_PARAMS[depth]["max_searches"], which execute_research uses as max_iterations
DEPTH_PARAMS == [standard |-> STANDARD_MAX_SEARCHES, deep |-> DEEP_MAX_SEARCHES]

\* Confidence values (percent) a researcher's quality_metrics may carry: one below the
\* critique threshold and the threshold itself
Confidences == {30, 60}

\* Outcome of one researcher task as asyncio.gather(return_exceptions=True) hands
\* it to the reconciliation loop: a result, or an exception whose text does or
\* does not contain "timeout"/"429".
Outcomes ==
    [kind : {"ok"}, confidence : Confidences]
      \cup [kind : {"retriable", "terminal"}, confidence : {0}]

(***************************************************************************)
(* Helpers on sequences.                                                   *)
(***************************************************************************)
Range(s) == {s[i] : i \in 1..Len(s)}

Min(a, b) == IF a <= b THEN a ELSE b

\* s[:n]
Take(s, n) == SubSeq(s, 1, Min(n, Len(s)))

RECURSIVE Pow2(_)
Pow2(n) == IF n <= 0 THEN 1 ELSE 2 * Pow2(n - 1)

RECURSIVE SumConf(_)
SumConf(s) == IF s = <<>> THEN 0 ELSE Head(s).confidence + SumConf(Tail(s))

RECURSIVE SeqsUpTo(_, _)
SeqsUpTo(S, n) ==
    IF n = 0 THEN {<<>>}
    ELSE LET shorter == SeqsUpTo(S, n - 1)
         IN  shorter \cup {Append(s, x) : s \in {t \in shorter : Len(t) = n - 1}, x \in S}

\* the elements of a finite set of integers in ascending order: sorted(set)
RECURSIVE sorted(_)
sorted(S) ==
    IF S = {} THEN <<>>
    ELSE LET m == CHOOSE x \in S : \A y \in S : x <= y
         IN  <<m>> \o sorted(S \ {m})

(***************************************************************************)
(* Text.  A string the code inspects character by character (a URL, a      *)
(* report) is a sequence of one-character strings.                         *)
(***************************************************************************)
Digits == {"0", "1", "2"}
Whitespace == {" ", "\n"}

DigitValue(c) == IF c = "0" THEN 0 ELSE IF c = "1" THEN 1 ELSE 2

\* int(id_str) for a string of digits
RECURSIVE int(_)
int(str) ==
    IF str = <<>> THEN 0
    ELSE 10 * int(SubSeq(str, 1, Len(str) - 1)) + DigitValue(str[Len(str)])

\* str.isdigit()
isdigit(str) == str # <<>> /\ \A i \in 1..Len(str) : str[i] \in Digits

\* str.strip()
RECURSIVE strip(_)
strip(str) ==
    IF str = <<>> THEN str
    ELSE IF Head(str) \in Whitespace THEN strip(Tail(str))
    ELSE IF str[Len(str)] \in Whitespace THEN strip(SubSeq(str, 1, Len(str) - 1))
    ELSE str

\* str.split(sep): the pieces between occurrences of the character sep
RECURSIVE split(_, _)
split(str, sep) ==
    LET hits == {i \in 1..Len(str) : str[i] = sep}
    IN  IF hits = {} THEN <<str>>
        ELSE LET i == CHOOSE k \in hits : \A j \in hits : k <= j
             IN  <<SubSeq(str, 1, i - 1)>> \o split(SubSeq(str, i + 1, Len(str)), sep)

\* str.rstrip("/")
RECURSIVE rstrip_slash(_)
rstrip_slash(str) ==
    IF str # <<>> /\ str[Len(str)] = "/"
    THEN rstrip_slash(SubSeq(str, 1, Len(str) - 1))
    ELSE str

\* URLs the researchers may return
URL_a == <<"a">>
URL_a_slash == <<"a", "/">>
URL_a_frag == <<"a", "#", "x">>
URL_b == <<"b">>
\* a URL that is only a slash: nothing is left of it once it is normalized
URL_slash == <<"/">>

\* the sources and scraped URLs a successful researcher run on a topic returns
ResearcherSources ==
    [t \in Topics |-> IF t = "t1" THEN <<[url |-> URL_a], [url |-> URL_a_slash]>>
                                  ELSE <<[url |-> URL_a_frag], [url |-> URL_b]>>]

\* the findings text a successful researcher run on a topic returns
ResearcherFindings ==
    [t \in Topics |-> IF t = "t1" THEN <<"f", "[", "1", "]">> ELSE <<"g">>]

\* the query of the research run
ResearchQuery == <<"q">>

VARIABLES
    orch,      \* the OrchestratorState record threaded through the orchestrator graph
    opc,       \* the orchestrator node to run next ("idle": no orchestrator run)
    batch,     \* tasks_to_run of the latest dispatch call
    seeded,    \* the scraped-URL set each researcher of that batch was started with
    runs       \* how often each topic's researcher was run in this orchestrator run (up to RunsCap)

VARIABLES
    rs,                \* the ResearcherState record threaded through the researcher graph
    rpc,               \* the researcher node to run next ("idle": no researcher run)
    reflect_passes,    \* how often reflect_node has run in this researcher run
    reflect_llm_calls, \* how often reflect_node has called the model in this researcher run
    reflect_reply,     \* what the model call of the latest reflect_node gave ("none": no call)
    scrape_calls       \* the scrape_multiple calls of this researcher run, in order: the
                       \* URLs handed over, and whether scraping or indexing raised

VARIABLES
    sessions,        \* SessionManager._sessions: session id -> SessionServices, if any
    pipelines,       \* app.main._pipelines: the session ids that have a pipeline
    log_callbacks,   \* logger._log_callbacks: the session ids whose log_to_ws is registered
    current,         \* _current_session_id.value on the event-loop thread
    conn,            \* per session id: its WebSocket ("none", "open", "closed")
    op,              \* per session id: whether a pipeline operation is suspended at an await
    now,             \* the event loop's clock, in seconds
    next_instance,   \* the identity the next SessionServices constructed will have
    index,           \* per index system: the names of the collections it holds
    index_shared,    \* whether the in-memory index clients of one process share one system
    last_access,     \* the last accessor call: the session it was made for, and the
                     \* session_id of the SessionServices it resolved to
    last_returned,   \* per session id: the instance get_or_create_session last returned
                     \* since the id's last cleanup (0: none)
    cleaned,         \* the session ids whose services the last step cleared or cleaned up
    torn_down        \* the session ids whose handler's teardown cleaned up their services

VARIABLES
    search_cache,     \* SimpleCache.search_cache of one session: query -> result list
    net_searches,     \* per query: calls of the network search client since the last clear
    search_returned   \* what the latest CachedGoogleSearcher.search call returned

VARIABLES
    export_result,    \* the result handed to export_to_markdown_from_json
    export_md         \* the Markdown file written: whether written, and its References entries

VARIABLES
    ws_conn,          \* per connection of websocket_search: "none", "open" or "closed"
    ws_reg,           \* what is registered for it: log callback, session entry, pipeline
    ws_last_result,   \* whether its pipeline's last_result is set
    ws_command,       \* the command its receive loop handled last, and whether it raised
    ws_reply,         \* the reply the handler sent for that command ("none": no reply)
    ws_export         \* session id and status of POST /api/export if it was the latest step

VARIABLES
    run_plan,         \* the plan handed to the pipeline's execute methods
    run_graph,        \* what graph.ainvoke returns for that plan
    run_pc,           \* "idle", or "chunks" while execute_research_streaming sends chunks
    run_i,            \* the loop variable i of the chunk loop
    run_events,       \* the events sent over the transport handle by the streaming run
    run_results,      \* per execute method: the result it returned, if it has
    run_clock,        \* datetime.now(): strictly later for each result built
    last_result,      \* DeepResearchPipeline.last_result
    run_complete,     \* the results sent to the client in complete events, in order
    run_export        \* the answer of POST /api/export if it was the latest step

VARIABLES
    llm_pc,           \* one GeminiLLM.generate call: "idle", "calling", "sleeping",
                      \* "returned" or "raised"
    llm_attempt,      \* the loop variable attempt
    llm_errors,       \* the errors the external model's calls raised so far, in order
    llm_calls,        \* calls of generate_content_async so far
    llm_sleeps,       \* backoff sleeps so far
    llm_raised        \* what generate raised: "none", "error" (the error it caught, by
                      \* raise e) or "max_retries" (the exception after the loop)

VARIABLES
    gs_num_results,   \* one GoogleSearcher.search call: its num_results argument
    gs_results,       \* results
    gs_start_index,   \* start_index
    gs_attempt,       \* the loop variable attempt of the _search_with_retry call under way
    gs_pc,            \* "idle", "fetch" (in _search_with_retry) or "returned"
    gs_pages,         \* the item lists of the pages fetched so far, in order
    gs_failure        \* the failure that made _search_with_retry return None, if any

VARIABLES
    cp_depth,         \* one create_plan call: its depth argument
    cp_response,      \* what the sub-topic generation call returns
    cp_pc,            \* "idle", "call", "returned" or "raised"
    cp_plan           \* the plan returned

orchVars == <<orch, opc, batch, seeded, runs>>
resVars == <<rs, rpc, reflect_passes, reflect_llm_calls, reflect_reply, scrape_calls>>
sessVars == <<sessions, pipelines, log_callbacks, current, conn, op, now, next_instance, index,
              index_shared, last_access, last_returned, cleaned, torn_down>>

cacheVars == <<search_cache, net_searches, search_returned>>

\* the variables of the components modelled on their own
exportVars == <<export_result, export_md>>
wsVars == <<ws_conn, ws_reg, ws_last_result, ws_command, ws_reply, ws_export>>
runVars == <<run_plan, run_graph, run_pc, run_i, run_events, run_results, run_clock,
             last_result, run_complete, run_export>>
gsVars == <<gs_num_results, gs_results, gs_start_index, gs_attempt, gs_pc, gs_pages,
            gs_failure>>
cpVars == <<cp_depth, cp_response, cp_pc, cp_plan>>
extVars == <<gsVars, cpVars>>
llmVars == <<llm_pc, llm_attempt, llm_errors, llm_calls, llm_sleeps, llm_raised>>
auxVars == <<cacheVars, exportVars, wsVars, runVars, llmVars, extVars>>

vars == <<orchVars, resVars, sessVars, auxVars>>

(***************************************************************************)
(* Orchestrator: synthesis helpers.                                        *)
(***************************************************************************)
\* the URL as deduplicate_sources compares it: fragment and trailing slashes stripped
normalized_url(url) ==
    LET hashes == {i \in 1..Len(url) : url[i] = "#"}
        cut == IF hashes = {} THEN url
               ELSE SubSeq(url, 1, (CHOOSE i \in hashes : \A j \in hashes : i <= j) - 1)
    IN  rstrip_slash(cut)

RECURSIVE dedup_from(_, _, _)
dedup_from(sources, i, seen_urls) ==
    IF i > Len(sources) THEN <<>>
    ELSE LET url == normalized_url(sources[i].url)
         IN  IF url # <<>> /\ url \notin seen_urls
             THEN <<sources[i]>> \o dedup_from(sources, i + 1, seen_urls \cup {url})
             ELSE dedup_from(sources, i + 1, seen_urls)

\* a synthesis that keeps every source
deduplicate_sources_keep_all(sources) == sources

deduplicate_sources(sources) == dedup_from(sources, 1, {})

CitationClass == Digits \cup Whitespace \cup {","}

\* re.findall(r'\[([0-9,\s]+)\]', text): the groups of the matches.  A match starts at
\* a "[" followed by one or more class characters and then "]"; "[" and "]" are not in
\* the class, so the group is the whole run of class characters after the "[".
citation_patterns(text) ==
    LET run_end(p) ==
            LET stops == {q \in (p + 1)..Len(text) : text[q] \notin CitationClass}
            IN  IF stops = {} THEN 0 ELSE CHOOSE q \in stops : \A r \in stops : q <= r
        starts == {p \in 1..Len(text) :
                     /\ text[p] = "["
                     /\ run_end(p) > p + 1
                     /\ text[run_end(p)] = "]"}
    IN  {SubSeq(text, p + 1, run_end(p) - 1) : p \in starts}

extract_all_citations(text) ==
    LET id_strs == UNION {{strip(piece) : piece \in Range(split(pattern, ","))} :
                            pattern \in citation_patterns(text)}
    IN  {int(id_str) : id_str \in {x \in id_strs : isdigit(x)}}

\* for i, source in enumerate(unique_sources, 1): source["id"] = i
with_ids(unique_sources) ==
    [i \in 1..Len(unique_sources) |-> [url |-> unique_sources[i].url, id |-> i]]

SYNTHESIS_FALLBACK_CONFIDENCE == 30
DEFAULT_CONFIDENCE == 50

\* fallback_report += f"## {r['topic']}\n\n{r['findings']}\n\n", for r in completed[i..]
RECURSIVE topic_sections(_, _)
topic_sections(completed, i) ==
    IF i > Len(completed) THEN <<>>
    ELSE <<"#", "#", " ", completed[i].topic, "\n", "\n">> \o completed[i].findings
           \o <<"\n", "\n">> \o topic_sections(completed, i + 1)

\* the same report without its leading title f"# {state['query']}\n\n"
fallback_report_untitled(state) == topic_sections(state.completed, 1)

fallback_report(state) ==
    <<"#", " ">> \o state.query \o <<"\n", "\n">> \o topic_sections(state.completed, 1)

\* response: what llm.generate returned, or that it raised
synthesize_node(state, response) ==
    LET unique_sources == with_ids(deduplicate_sources(state.all_sources))
    IN  IF response.ok
        THEN LET cited_source_ids == sorted(extract_all_citations(response.text))
             IN  [state EXCEPT !.synthesis_result =
                    [fallback |-> FALSE,
                     report_text |-> response.text,
                     sources_used |-> unique_sources,
                     citations |-> cited_source_ids,
                     confidence |-> IF state.completed = <<>> THEN DEFAULT_CONFIDENCE
                                    ELSE SumConf(state.completed) \div Len(state.completed),
                     source_count |-> Len(unique_sources),
                     sources_cited |-> Len(cited_source_ids)]]
        ELSE [state EXCEPT !.synthesis_result =
                    [fallback |-> TRUE,
                     report_text |-> fallback_report(state),
                     sources_used |-> unique_sources,
                     citations |-> <<>>,
                     confidence |-> SYNTHESIS_FALLBACK_CONFIDENCE,
                     source_count |-> Len(unique_sources),
                     sources_cited |-> 0]]

(***************************************************************************)
(* Orchestrator nodes.                                                     *)
(***************************************************************************)
completed_topics(state) == {state.completed[i].topic : i \in 1..Len(state.completed)}

pending_topics(state) ==
    SelectSeq(state.sub_topics,
              LAMBDA t : t \notin completed_topics(state) /\ t \notin state.failed_topics)

\* wait_time = 2 ** (attempt - 1); current_iter - last_attempt_at >= wait_time
eligible(state, retry) ==
    state.iteration - retry.last_attempt_at >= Pow2(retry.attempt - 1)

\* the retry-queue loop of dispatch_node: the entries to retry, ...
retry_topics(state) ==
    SelectSeq(state.retry_queue,
              LAMBDA r : eligible(state, r) /\ r.attempt < MAX_RETRY_ATTEMPT)

\* ... the topics it adds to failed_topics, ...
permanently_failed(state) ==
    {state.retry_queue[i].topic : i \in
        {j \in 1..Len(state.retry_queue) :
            /\ eligible(state, state.retry_queue[j])
            /\ ~(state.retry_queue[j].attempt < MAX_RETRY_ATTEMPT)}}

\* ... and new_retry_queue as the loop leaves it
kept_retry_queue(state) ==
    SelectSeq(state.retry_queue, LAMBDA r : ~eligible(state, r))

\* the batch with the pending topics given the slots first
tasks_to_run_pending_first(state) ==
    LET news == Take(pending_topics(state), batch_size)
        new_tasks == [i \in 1..Len(news) |-> [topic |-> news[i], is_retry |-> FALSE]]
        retries == Take(retry_topics(state), batch_size - Len(news))
        retry_tasks == [i \in 1..Len(retries) |-> [topic |-> retries[i].topic, is_retry |-> TRUE]]
    IN  retry_tasks \o new_tasks

tasks_to_run(state) ==
    LET retries == Take(retry_topics(state), batch_size)
        retry_tasks == [i \in 1..Len(retries) |-> [topic |-> retries[i].topic, is_retry |-> TRUE]]
        remaining_slots == batch_size - Len(retry_tasks)
        news == Take(pending_topics(state), remaining_slots)
        new_tasks == [i \in 1..Len(news) |-> [topic |-> news[i], is_retry |-> FALSE]]
    IN  retry_tasks \o new_tasks

\* next((r for r in retry_topics if r["topic"] == topic), None), as the attempt to record
next_attempt(state, topic) ==
    LET rt == retry_topics(state)
        hits == {i \in 1..Len(rt) : rt[i].topic = topic}
    IN  IF hits = {} THEN 1
        ELSE rt[CHOOSE i \in hits : \A j \in hits : i <= j].attempt + 1

\* The reconciliation loop over the gathered results, in submission order.
\* acc = [completed, all_sources, retry_queue, global_scraped_urls, failed_topics]
RECURSIVE reconcile(_, _, _, _, _)
reconcile(state, tasks, results, i, acc) ==
    IF i > Len(tasks) THEN acc
    ELSE LET topic == tasks[i].topic
             result == results[i]
         IN  reconcile(state, tasks, results, i + 1,
               CASE result.kind = "retriable" ->
                      [acc EXCEPT !.retry_queue =
                          Append(@, [topic |-> topic,
                                     attempt |-> next_attempt(state, topic),
                                     last_attempt_at |-> state.iteration])]
                 [] result.kind = "terminal" ->
                      [acc EXCEPT !.failed_topics = @ \cup {topic}]
                 [] OTHER ->
                      [acc EXCEPT
                          !.completed =
                              Append(@, [topic |-> topic,
                                         findings |-> ResearcherFindings[topic],
                                         confidence |-> result.confidence]),
                          !.all_sources = @ \o ResearcherSources[topic],
                          !.global_scraped_urls =
                              @ \cup {ResearcherSources[topic][k].url :
                                        k \in 1..Len(ResearcherSources[topic])}])

plan_node(state) ==
    [state EXCEPT !.retry_queue = <<>>, !.global_scraped_urls = {}, !.failed_topics = {}]

\* seeds in which a task sees the URLs of the tasks submitted before it
researcher_seeds_accumulating(state, tasks) ==
    [i \in 1..Len(tasks) |->
        state.global_scraped_urls \cup
          UNION {{ResearcherSources[tasks[j].topic][k].url :
                    k \in 1..Len(ResearcherSources[tasks[j].topic])} : j \in 1..(i - 1)}]

\* run_single_researcher(task["topic"], full_context, global_scraped) for task in
\* tasks_to_run: the initial scraped_urls of each researcher, list(global_scraped)
researcher_seeds(state, tasks) ==
    [i \in 1..Len(tasks) |-> state.global_scraped_urls]

\* a dispatch that counts an iteration for an empty batch too
dispatch_node_counting_empty(state, results) ==
    LET tasks == tasks_to_run(state)
        acc == reconcile(state, tasks, results, 1,
                         [completed |-> <<>>,
                          all_sources |-> <<>>,
                          retry_queue |-> kept_retry_queue(state),
                          global_scraped_urls |-> state.global_scraped_urls,
                          failed_topics |-> state.failed_topics \cup permanently_failed(state)])
    IN  [state EXCEPT !.completed = @ \o acc.completed,
                      !.all_sources = @ \o acc.all_sources,
                      !.retry_queue = acc.retry_queue,
                      !.global_scraped_urls = acc.global_scraped_urls,
                      !.failed_topics = acc.failed_topics,
                      !.iteration = @ + 1]

dispatch_node(state, results) ==
    LET tasks == tasks_to_run(state)
        failed == state.failed_topics \cup permanently_failed(state)
    IN  IF tasks = <<>>
        THEN [state EXCEPT !.failed_topics = failed,
                           !.retry_queue = kept_retry_queue(state)]
        ELSE LET acc == reconcile(state, tasks, results, 1,
                                  [completed |-> <<>>,
                                   all_sources |-> <<>>,
                                   retry_queue |-> kept_retry_queue(state),
                                   global_scraped_urls |-> state.global_scraped_urls,
                                   failed_topics |-> failed])
             IN  [state EXCEPT !.completed = @ \o acc.completed,
                               !.all_sources = @ \o acc.all_sources,
                               !.retry_queue = acc.retry_queue,
                               !.global_scraped_urls = acc.global_scraped_urls,
                               !.failed_topics = acc.failed_topics,
                               !.iteration = @ + 1]

\* critique_node asking for follow-up topics whatever the confidence and the iteration
critique_always_consults(state) == state.completed # <<>>

\* whether critique_node reaches the generate_followup_topics call
critique_consults_model(state) ==
    /\ state.completed # <<>>
    /\ SumConf(state.completed) < CONFIDENCE_THRESHOLD * Len(state.completed)
    /\ state.iteration < Min(state.max_iterations, CRITIQUE_ITERATION_CAP)

\* a critique that appends every new topic the model returned
critique_node_append_all(state, new_topics) ==
    IF critique_consults_model(state)
    THEN [state EXCEPT !.sub_topics =
            @ \o SelectSeq(new_topics, LAMBDA t : t \notin Range(state.sub_topics))]
    ELSE state

\* new_topics: what generate_followup_topics returned ([] when the model call failed)
critique_node(state, new_topics) ==
    IF critique_consults_model(state)
    THEN LET final_new ==
                 Take(SelectSeq(new_topics, LAMBDA t : t \notin Range(state.sub_topics)),
                      MAX_NEW_TOPICS)
         IN  [state EXCEPT !.sub_topics = @ \o final_new]
    ELSE state

\* should_continue_orchestrator without its iteration cap
should_continue_orchestrator_uncapped(state) ==
    IF pending_topics(state) # <<>> \/ state.retry_queue # <<>>
    THEN "dispatch"
    ELSE "synthesize"

should_continue_orchestrator(state) ==
    IF /\ (pending_topics(state) # <<>> \/ state.retry_queue # <<>>)
       /\ state.iteration < state.max_iterations
    THEN "dispatch"
    ELSE "synthesize"

(***************************************************************************)
(* Researcher nodes.                                                       *)
(***************************************************************************)
RESEARCHER_MAX_ITERATIONS == 2
MAX_NEW_SOURCES == 5
SCRAPE_BATCH == 5
SHORT_CIRCUIT_COVERAGE == 70
SHORT_CIRCUIT_CHUNKS == 6
CONTINUE_COVERAGE == 60
CONTINUE_CHUNKS == 7
FALLBACK_REFLECTION_CONFIDENCE == 55
DEFAULT_COVERAGE == 50

ResearchURLs == {"u1", "u2"}
NoChunks == [n |-> 0, coverage |-> 0, missing |-> TRUE]

\* initial_state of run_single_researcher, seeded with the globally scraped URLs
initial_state(global_scraped) ==
    [searches |-> <<>>,
     scraped_urls |-> global_scraped,
     chunks_indexed |-> 0,
     reflections |-> <<>>,
     iteration |-> 0,
     max_iterations |-> RESEARCHER_MAX_ITERATIONS,
     scraped_content |-> 0,
     retrieved_chunks |-> NoChunks,
     sources |-> <<>>,
     coverage |-> <<>>,
     findings |-> "",
     confidence |-> 0]

\* The retrieved chunks are kept as their number and what analyze_content_coverage
\* finds in their text: the coverage score (percent) and whether an aspect is missing.
analyze_content_coverage(chunks) ==
    IF chunks.n = 0
    THEN [coverage_score |-> 0, missing_aspects |-> TRUE]
    ELSE [coverage_score |-> chunks.coverage, missing_aspects |-> chunks.missing]

search_query(state) ==
    IF state.reflections # <<>> /\ state.reflections[Len(state.reflections)].next_query # ""
    THEN state.reflections[Len(state.reflections)].next_query
    ELSE "topic"

\* valid_results: the links of the results that pass is_valid_search_result
search_node(state, valid_results) ==
    IF valid_results = <<>>
    THEN [state EXCEPT !.searches = Append(@, search_query(state))]
    ELSE [state EXCEPT !.searches = Append(@, search_query(state)),
                       !.sources = @ \o Take(valid_results, MAX_NEW_SOURCES)]

\* current_urls - scraped_already
urls_to_scrape(state) == Range(state.sources) \ Range(state.scraped_urls)

\* scrape_and_index_node returning {} from its except branch
scrape_and_index_node_forgetting_failed(state, to_scrape, outcome) ==
    IF to_scrape = <<>> \/ outcome.raised THEN state
    ELSE [state EXCEPT !.scraped_urls = @ \o to_scrape,
                       !.chunks_indexed = @ + outcome.valid,
                       !.scraped_content = @ + outcome.valid]

\* to_scrape: list(current_urls - scraped_already)[:5], in the order the set yields;
\* outcome: the scrape/index call raised, or how many scrapes were valid
scrape_and_index_node(state, to_scrape, outcome) ==
    IF to_scrape = <<>> THEN state
    ELSE IF outcome.raised
         THEN [state EXCEPT !.scraped_urls = @ \o to_scrape]
         ELSE [state EXCEPT !.scraped_urls = @ \o to_scrape,
                            !.chunks_indexed = @ + outcome.valid,
                            !.scraped_content = @ + outcome.valid]

\* outcome: what store.search returned, or that the call raised
retrieve_node(state, outcome) ==
    IF state.chunks_indexed = 0 THEN [state EXCEPT !.retrieved_chunks = NoChunks]
    ELSE IF outcome.raised THEN [state EXCEPT !.retrieved_chunks = NoChunks]
    ELSE [state EXCEPT !.retrieved_chunks = outcome.chunks]

\* The session's store is RAGStore, whose search takes no use_query_expansion
\* parameter, which retrieve_node passes: the call raises before it searches.
RetrieveOutcomes == {[raised |-> TRUE, chunks |-> NoChunks]}

\* whether reflect_node stops at the iteration cap
reflect_at_cap(state) == state.iteration + 1 >= state.max_iterations

\* whether reflect_node short-circuits on good coverage
reflect_short_circuit(state) ==
    /\ analyze_content_coverage(state.retrieved_chunks).coverage_score >= SHORT_CIRCUIT_COVERAGE
    /\ state.retrieved_chunks.n >= SHORT_CIRCUIT_CHUNKS

\* whether reflect_node reaches llm.generate_json
reflect_consults_model(state) == ~reflect_at_cap(state) /\ ~reflect_short_circuit(state)

Max(a, b) == IF a >= b THEN a ELSE b

REFLECTION_DEFAULT_CONFIDENCE == 50

\* generate_json that hands a text that is no JSON on as a failure
generate_json_strict(reply) ==
    IF reply.kind = "unparsable" THEN [reply EXCEPT !.kind = "raised"] ELSE reply

\* json.loads(json_str), except json.JSONDecodeError: return {}
generate_json(reply) ==
    IF reply.kind = "unparsable" THEN [reply EXCEPT !.kind = "object"] ELSE reply

\* data.setdefault("confidence", 0.5), ("continue_research", False), ("next_query", "")
with_defaults(data) ==
    IF data.has_keys THEN data
    ELSE [data EXCEPT !.has_keys = TRUE,
                      !.confidence = REFLECTION_DEFAULT_CONFIDENCE,
                      !.continue_research = FALSE,
                      !.next_query = ""]

\* reply: what the model call gave.  The except branch is taken when generate raised,
\* when data is no dict, and when a value of another type than asked for raises in
\* max(), in the :.2f of the log line or in the concatenation of the gaps.
reflect_node(state, reply) ==
    LET iter_count == state.iteration + 1
        coverage == analyze_content_coverage(state.retrieved_chunks)
        data == generate_json(reply)
        response == with_defaults(data)
    IN  IF iter_count >= state.max_iterations
        THEN [state EXCEPT !.iteration = iter_count]
        ELSE IF reflect_short_circuit(state)
        THEN [state EXCEPT
                !.reflections = Append(@, [confidence |-> 70,
                                           continue_research |-> FALSE,
                                           next_query |-> ""]),
                !.iteration = iter_count]
        ELSE IF data.kind = "object"
        THEN LET conf == IF coverage.coverage_score >= 60 THEN Max(response.confidence, 65)
                         ELSE IF coverage.coverage_score >= 50
                              THEN Max(response.confidence, 55)
                              ELSE response.confidence
                 go_on == /\ coverage.coverage_score < CONTINUE_COVERAGE
                          /\ state.retrieved_chunks.n < CONTINUE_CHUNKS
                 next_query == IF go_on /\ response.next_query = "" /\ coverage.missing_aspects
                               THEN "topic missing"
                               ELSE response.next_query
             IN  [state EXCEPT
                    !.reflections = Append(@, [confidence |-> conf,
                                               continue_research |-> go_on,
                                               next_query |-> next_query]),
                    !.iteration = iter_count,
                    !.coverage = <<coverage.coverage_score>>]
        ELSE [state EXCEPT
                !.reflections = Append(@, [confidence |-> FALLBACK_REFLECTION_CONFIDENCE,
                                           continue_research |-> FALSE,
                                           next_query |-> ""]),
                !.iteration = iter_count]

summarize_node(state, summary_ok) ==
    IF summary_ok
    THEN LET avg == IF state.reflections = <<>> THEN DEFAULT_CONFIDENCE
                    ELSE SumConf(state.reflections) \div Len(state.reflections)
             enough == state.retrieved_chunks.n >= 3
             coverage_score ==
                 IF state.coverage = <<>> THEN DEFAULT_COVERAGE ELSE state.coverage[1]
             cov == IF enough THEN Max(50, coverage_score) ELSE coverage_score
             avg_conf == IF enough THEN Max(50, avg) ELSE avg
         IN  [state EXCEPT !.findings = "summary",
                           !.confidence = (avg_conf * 6 + cov * 4) \div 10]
    ELSE [state EXCEPT !.findings = "Error: Unable to generate summary",
                       !.confidence = 0]

\* should_continue without its iteration cap
should_continue_ignoring_cap(state) ==
    IF state.reflections = <<>> THEN "search"
    ELSE IF state.reflections[Len(state.reflections)].continue_research THEN "search"
    ELSE "summarize"

should_continue(state) ==
    IF state.iteration >= state.max_iterations THEN "summarize"
    ELSE IF state.reflections = <<>> THEN "search"
    ELSE IF state.reflections[Len(state.reflections)].continue_research THEN "search"
    ELSE "summarize"

(***************************************************************************)
(* Sessions: SessionServices, SessionManager, the current-session pointer, *)
(* and the WebSocket handler and periodic sweep that drive them.           *)
(***************************************************************************)
SessionIds == {"A", "B"}
None == "None"
CacheKeys == {"q"}
CollectionIds == {"res_t1"}
SWEEP_PERIOD == 600
SWEEP_MAX_AGE == 3600
MaxInstances == 3
MaxClock == 4200

\* The index system behind the client a RAGStore constructs.  chromadb.Client(Settings)
\* names no storage of its own; whether the in-memory clients of one process are backed
\* by one system is the library's: both are modelled (index_shared).
index_system(shared, instance) == IF shared THEN 0 ELSE instance

\* SessionServices.__init__: an own SimpleCache and an own RAGStore
SessionServices(session_id, instance, created_at, shared) ==
    [session_id |-> session_id,
     instance |-> instance,
     created_at |-> created_at,
     cache |-> {},
     collections |-> {},
     client |-> index_system(shared, instance)]

\* the value of _sessions.get(session_id) for an id that is no key of _sessions
NoServices ==
    [session_id |-> None, instance |-> 0, created_at |-> 0,
     cache |-> {}, collections |-> {}, client |-> 0]

\* get_or_create_session without its membership test
get_or_create_session_always_new(S, session_id, instance, t, shared) ==
    [S EXCEPT ![session_id] = SessionServices(session_id, instance, t, shared)]

\* SessionManager._sessions after get_or_create_session(session_id)
get_or_create_session(S, session_id, instance, t, shared) ==
    IF S[session_id] = NoServices
    THEN [S EXCEPT ![session_id] = SessionServices(session_id, instance, t, shared)]
    ELSE S

\* RAGStore.clear_all on the services' store: the index after every collection of the
\* store is deleted and the client is reset
index_after_clear_all(idx, services) == [idx EXCEPT ![services.client] = {}]

\* the collections of a session's store that its index client still holds
rag_collections(S, idx, session_id) ==
    IF S[session_id] = NoServices THEN {}
    ELSE S[session_id].collections \cap idx[S[session_id].client]

\* cleanup_old_sessions: the ids whose services are older than max_age_seconds
old_sessions(S, t) ==
    {sid \in SessionIds : S[sid] # NoServices /\ t - S[sid].created_at > SWEEP_MAX_AGE}

RECURSIVE index_after_cleanups(_, _, _)
index_after_cleanups(idx, S, sids) ==
    IF sids = {} THEN idx
    ELSE LET sid == CHOOSE x \in sids : TRUE
         IN  index_after_cleanups(index_after_clear_all(idx, S[sid]), S, sids \ {sid})

NoAccess == [caller |-> None, resolved |-> None]

SessStart(shared) ==
    /\ sessions = [sid \in SessionIds |-> NoServices]
    /\ pipelines = {}
    /\ log_callbacks = {}
    /\ current = None
    /\ conn = [sid \in SessionIds |-> "none"]
    /\ op = [sid \in SessionIds |-> "idle"]
    /\ now = 0
    /\ next_instance = 1
    /\ index = [k \in 0..MaxInstances |-> {}]
    /\ index_shared = shared
    /\ last_access = NoAccess
    /\ last_returned = [sid \in SessionIds |-> 0]
    /\ cleaned = {}
    /\ torn_down = {}

SessIdle == SessStart(FALSE)

(***************************************************************************)
(* The session cache and the cached search client.                         *)
(***************************************************************************)
Queries == {"q1", "q2"}
SearchItems == {"r1", "r2"}
MaxNetSearches == 3

\* the result lists GoogleSearcher.search can return for num_results: the items found,
\* at most num_results of them; an empty list when nothing was found or a request failed
NetworkResults(num_results) ==
    {r \in SeqsUpTo(SearchItems, num_results) : Cardinality(Range(r)) = Len(r)}

\* SimpleCache.__init__ / SimpleCache.clear: no key
EmptyCache == [q \in {} |-> <<>>]

\* "if cached": get_search found a list for the query and the list is not empty
cache_hit(cache, query) == query \in DOMAIN cache /\ cache[query] # <<>>

\* SimpleCache.save_search
save_search(cache, query, results) ==
    [q \in DOMAIN cache \cup {query} |-> IF q = query THEN results ELSE cache[q]]

\* CachedGoogleSearcher.search: the value returned; results is what the network client
\* returns if it is called
cached_search_result(cache, query, num_results, results) ==
    IF cache_hit(cache, query) THEN Take(cache[query], num_results) ELSE results

\* CachedGoogleSearcher.search: the cache after the call
cached_search_cache(cache, query, results) ==
    IF cache_hit(cache, query) THEN cache
    ELSE IF results # <<>> THEN save_search(cache, query, results) ELSE cache

CacheIdle ==
    /\ search_cache = EmptyCache
    /\ net_searches = [q \in Queries |-> 0]
    /\ search_returned = <<>>

(***************************************************************************)
(* The Markdown exporter.                                                  *)
(***************************************************************************)
\* extract_citations_from_text of utils/export.py
extract_citations_from_text(text) ==
    LET ids == UNION {Range(split(pattern, ",")) : pattern \in citation_patterns(text)}
    IN  {int(strip(id_str)) : id_str \in {x \in ids : isdigit(strip(x))}}

\* an export that lists every source of the result
export_references_uncited(result) == result.sources

\* the entries export_to_markdown_from_json appends below "## References"
export_references(result) ==
    LET cited_ids == extract_citations_from_text(result.report_text)
        \* {s.get('id'): s for s in sources}: a later source of the same id replaces
        \* an earlier one
        source_map(source_id) ==
            LET at == {i \in 1..Len(result.sources) : result.sources[i].id = source_id}
            IN  result.sources[CHOOSE i \in at : \A j \in at : j <= i]
        listed == {source_id \in cited_ids :
                     \E i \in 1..Len(result.sources) : result.sources[i].id = source_id}
        ordered == sorted(listed)
    IN  [k \in 1..Len(ordered) |-> source_map(ordered[k])]

NoExport == [report_text |-> <<>>, sources |-> <<>>]

ExportIdle ==
    /\ export_result = NoExport
    /\ export_md = [written |-> FALSE, references |-> <<>>]

(***************************************************************************)
(* The WebSocket handler of one connection and the export endpoint.        *)
(***************************************************************************)
CommandTypes == {"create_plan", "refine_plan", "execute_research", "clear"}

NoCommand == [type |-> "none", raised |-> FALSE]

Unregistered == [callback |-> FALSE, session |-> FALSE, pipeline |-> FALSE]

\* the reply of the handler to a command its pipeline method completed
success_reply(type) ==
    CASE type = "create_plan" -> "plan_generated"
      [] type = "refine_plan" -> "plan_refined"
      [] type = "execute_research" -> "complete"
      [] type = "clear" -> "cleared"

\* whether the branch of the receive loop for the command wraps the pipeline call in
\* try / except Exception
handler_catches(type) == type # "clear"

\* an export that looks only for the pipeline
export_status_any_pipeline(pipeline_registered, has_result) ==
    IF ~pipeline_registered THEN {404} ELSE {200, 500}

\* export_report: 404 without a pipeline or a last_result; else 200 with the file, or
\* 500 when the export fails
export_status(pipeline_registered, has_result) ==
    IF ~pipeline_registered \/ ~has_result THEN {404} ELSE {200, 500}

NoExportRequest == [session_id |-> None, status |-> 0]

WsIdle ==
    /\ ws_conn = [s \in SessionIds |-> "none"]
    /\ ws_reg = [s \in SessionIds |-> Unregistered]
    /\ ws_last_result = [s \in SessionIds |-> FALSE]
    /\ ws_command = [s \in SessionIds |-> NoCommand]
    /\ ws_reply = [s \in SessionIds |-> "none"]
    /\ ws_export = NoExportRequest

(***************************************************************************)
(* The pipeline's execute methods.                                         *)
(***************************************************************************)
chunk_size == 50

ExecuteMethods == {"execute_research", "streaming", "streaming_ws"}

NoResult == [query |-> "", report_text |-> <<>>, sources |-> <<>>, citations |-> <<>>,
             sub_topics |-> <<>>, quality_metrics |-> [confidence |-> 0],
             timestamp |-> 0, iterations |-> 0]

\* synthesis = result.get("synthesis_result", {}), replaced when it is missing or empty
synthesis_of(result) ==
    IF result.synthesis_result.present
    THEN result.synthesis_result
    ELSE [present |-> TRUE,
          report_text |-> result.report,
          sources_used |-> result.all_sources,
          citations |-> <<>>,
          metadata |-> [confidence |-> 0]]

\* final_result of execute_research
execute_research_result(plan, result, timestamp) ==
    LET synthesis == synthesis_of(result)
    IN  [query |-> plan.query,
         report_text |-> synthesis.report_text,
         sources |-> synthesis.sources_used,
         citations |-> synthesis.citations,
         sub_topics |-> result.sub_topics,
         quality_metrics |-> synthesis.metadata,
         timestamp |-> timestamp,
         iterations |-> result.iteration]

\* a streaming result that reports the plan's sub-topics instead of the graph's
streaming_result_plan_topics(plan, result, timestamp, ws) ==
    [execute_research_result(plan, result, timestamp) EXCEPT !.sub_topics = plan.sub_topics]

\* final_result of execute_research_streaming, built in the branch with a transport
\* handle and in the branch without
streaming_result(plan, result, timestamp, ws) ==
    LET synthesis == synthesis_of(result)
        report_text == synthesis.report_text
        sources == synthesis.sources_used
        citations == synthesis.citations
        metadata == synthesis.metadata
    IN  IF ws
        THEN [query |-> plan.query,
              report_text |-> report_text,
              sources |-> sources,
              citations |-> citations,
              sub_topics |-> result.sub_topics,
              quality_metrics |-> metadata,
              timestamp |-> timestamp,
              iterations |-> result.iteration]
        ELSE [query |-> plan.query,
              report_text |-> report_text,
              sources |-> sources,
              citations |-> citations,
              sub_topics |-> result.sub_topics,
              quality_metrics |-> metadata,
              timestamp |-> timestamp,
              iterations |-> result.iteration]

\* a chunk loop whose slices overlap by one character
synthesis_chunk_overlapping(report_text, i) ==
    [type |-> "synthesis_chunk",
     chunk |-> SubSeq(report_text, Max(i, 1), Min(i + chunk_size, Len(report_text))),
     progress |-> Min(100, (i * 100) \div Len(report_text))]

\* the synthesis_chunk event of loop index i: report_text[i:i+chunk_size] and
\* min(100, int((i / len(report_text)) * 100))
synthesis_chunk(report_text, i) ==
    [type |-> "synthesis_chunk",
     chunk |-> SubSeq(report_text, i + 1, Min(i + chunk_size, Len(report_text))),
     progress |-> Min(100, (i * 100) \div Len(report_text))]

NoPlan == [query |-> "", sub_topics |-> <<>>]

\* no export request answered
NoExportAnswer == [status |-> 0, result |-> NoResult]

NoGraphResult ==
    [synthesis_result |-> [present |-> FALSE], report |-> <<>>, all_sources |-> <<>>,
     sub_topics |-> <<>>, iteration |-> 0]

RunIdle ==
    /\ run_plan = NoPlan
    /\ run_graph = NoGraphResult
    /\ run_pc = "idle"
    /\ run_i = 0
    /\ run_events = <<>>
    /\ run_results = [m \in ExecuteMethods |-> NoResult]
    /\ run_clock = 1
    /\ last_result = NoResult
    /\ run_complete = <<>>
    /\ run_export = NoExportAnswer

(***************************************************************************)
(* The LLM client's retry loop.                                            *)
(***************************************************************************)
max_retries == 5

\* an error of the external model, by what its text contains
LlmErrors == [has_429 : BOOLEAN, has_resource_exhausted : BOOLEAN]

\* a retry on every error
should_retry_any_error(error, attempt) == attempt < max_retries - 1

\* GeminiLLM._should_retry
should_retry(error, attempt) ==
    IF attempt >= max_retries - 1 THEN FALSE
    ELSE error.has_429 \/ error.has_resource_exhausted

LlmIdle ==
    /\ llm_pc = "idle"
    /\ llm_attempt = 0
    /\ llm_errors = <<>>
    /\ llm_calls = 0
    /\ llm_sleeps = 0
    /\ llm_raised = "none"

(***************************************************************************)
(* The search client.                                                      *)
(***************************************************************************)
PAGE_SIZE == 10
MAX_RESULTS == 100
max_attempts == 3

\* a loop over the items of a page without the break
append_all_items(results, items, num_to_fetch) == results \o items

\* for item in items: results.append(...); if len(results) >= num_to_fetch: break
append_items(results, items, num_to_fetch) ==
    IF Len(results) >= num_to_fetch
    THEN results \o Take(items, 1)
    ELSE results \o Take(items, num_to_fetch - Len(results))

GsIdle ==
    /\ gs_num_results = 0
    /\ gs_results = <<>>
    /\ gs_start_index = 1
    /\ gs_attempt = 0
    /\ gs_pc = "idle"
    /\ gs_pages = <<>>
    /\ gs_failure = "none"

(***************************************************************************)
(* The pipeline: create_plan.                                              *)
(***************************************************************************)
\* DEPTH_PARAMS.get(depth, DEPTH_PARAMS["standard"]).get("max_searches", 3)
max_searches(depth) ==
    IF depth \in DOMAIN DEPTH_PARAMS THEN DEPTH_PARAMS[depth] ELSE DEPTH_PARAMS["standard"]

\* [line.strip() for line in response.strip().split("\n")], blank lines included
stripped_lines(response) ==
    LET lines == split(strip(response), "\n")
    IN  [i \in 1..Len(lines) |-> strip(lines[i])]

\* the same list without the slice [:num_topics]
sub_topics_untrimmed(query, depth, response) ==
    LET sub_topics == SelectSeq(stripped_lines(response), LAMBDA line : line # <<>>)
    IN  IF sub_topics = <<>> THEN <<query>> ELSE sub_topics

\* the sub_topics of create_plan for the response of the sub-topic generation call
sub_topics_of(query, depth, response) ==
    LET num_topics == max_searches(depth)
        sub_topics == Take(SelectSeq(stripped_lines(response), LAMBDA line : line # <<>>),
                           num_topics)
    IN  IF sub_topics = <<>> THEN <<query>> ELSE sub_topics

create_plan(query, depth, response) ==
    LET sub_topics == sub_topics_of(query, depth, response)
    IN  [query |-> query, depth |-> depth, sub_topics |-> sub_topics,
         estimated_sources |-> Len(sub_topics) * 5]

NoCreatedPlan == [query |-> <<>>, depth |-> "", sub_topics |-> <<>>, estimated_sources |-> 0]

CpIdle ==
    /\ cp_depth = ""
    /\ cp_response = <<>>
    /\ cp_pc = "idle"
    /\ cp_plan = NoCreatedPlan

ExtIdle == GsIdle /\ CpIdle

AuxIdle == CacheIdle /\ ExportIdle /\ WsIdle /\ RunIdle /\ LlmIdle /\ ExtIdle

(***************************************************************************)
(* The orchestrator graph: START -> plan -> dispatch -> critique ->        *)
(* {dispatch, synthesize}; synthesize -> END.                              *)
(***************************************************************************)
NoSynthesis ==
    [fallback |-> FALSE, report_text |-> <<>>, sources_used |-> <<>>, citations |-> <<>>,
     confidence |-> 0, source_count |-> 0, sources_cited |-> 0]

\* init_state of execute_research for a plan
init_state(sub_topics, depth) ==
    [query |-> ResearchQuery,
     sub_topics |-> sub_topics,
     iteration |-> 0,
     max_iterations |-> DEPTH_PARAMS[depth],
     completed |-> <<>>,
     all_sources |-> <<>>,
     retry_queue |-> <<>>,
     global_scraped_urls |-> {},
     failed_topics |-> {},
     synthesis_result |-> NoSynthesis]

ResIdle ==
    /\ rs = initial_state(<<>>)
    /\ rpc = "idle"
    /\ reflect_passes = 0
    /\ reflect_llm_calls = 0
    /\ reflect_reply = "none"
    /\ scrape_calls = <<>>

OrchIdle ==
    /\ orch = init_state(<<>>, "standard")
    /\ opc = "idle"
    /\ batch = <<>>
    /\ seeded = <<>>
    /\ runs = [t \in Topics |-> 0]

InitOrch ==
    /\ \E topics \in SeqsUpTo(Topics, MaxPlanTopics), depth \in DOMAIN DEPTH_PARAMS :
         orch = init_state(topics, depth)
    /\ opc = "plan"
    /\ batch = <<>>
    /\ seeded = <<>>
    /\ runs = [t \in Topics |-> 0]
    /\ ResIdle
    /\ SessIdle
    /\ AuxIdle

Plan ==
    /\ opc = "plan"
    /\ orch' = plan_node(orch)
    /\ opc' = "dispatch"
    /\ UNCHANGED <<batch, seeded, runs, resVars, sessVars, auxVars>>

Dispatch ==
    /\ opc = "dispatch"
    /\ LET tasks == tasks_to_run(orch)
       IN  /\ \E results \in [1..Len(tasks) -> Outcomes] :
                orch' = dispatch_node(orch, results)
           /\ batch' = tasks
           /\ seeded' = researcher_seeds(orch, tasks)
           /\ runs' = [t \in Topics |->
                         Min(RunsCap,
                             runs[t] + Cardinality({i \in 1..Len(tasks) : tasks[i].topic = t}))]
    /\ opc' = "critique"
    /\ UNCHANGED <<resVars, sessVars, auxVars>>

Critique ==
    /\ opc = "critique"
    /\ \E new_topics \in
            (IF critique_consults_model(orch)
             THEN SeqsUpTo(Topics, MAX_FOLLOWUP_TOPICS) ELSE {<<>>}) :
         /\ orch' = critique_node(orch, new_topics)
         /\ opc' = should_continue_orchestrator(orch')
    /\ UNCHANGED <<batch, seeded, runs, resVars, sessVars, auxVars>>

\* the model responses a synthesis may get: a report, or a failure of the call
SynthesisResponses(texts) ==
    [ok : {TRUE}, text : texts] \cup {[ok |-> FALSE, text |-> <<>>]}

Synthesize(texts) ==
    /\ opc = "synthesize"
    /\ \E response \in SynthesisResponses(texts) :
         orch' = synthesize_node(orch, response)
    /\ opc' = "END"
    /\ UNCHANGED <<batch, seeded, runs, resVars, sessVars, auxVars>>

\* reports used where the run before the synthesis is what is explored
SampleReports == {<<"[", "1", "]">>, <<"[", "2", "]", " ">>, <<>>}

SynthesizeSample == Synthesize(SampleReports)

NextOrch == Plan \/ Dispatch \/ Critique \/ SynthesizeSample

SpecOrch == InitOrch /\ [][NextOrch]_vars

\* the runs whose plan names no topic twice
InitOrchDistinct ==
    /\ InitOrch
    /\ Cardinality(Range(orch.sub_topics)) = Len(orch.sub_topics)

SpecOrchDistinct == InitOrchDistinct /\ [][NextOrch]_vars

\* Each node of a running graph is eventually run.
FairSpecOrch == SpecOrch /\ WF_vars(NextOrch)

FairSpecOrchDistinct == SpecOrchDistinct /\ WF_vars(NextOrch)

(***************************************************************************)
(* The researcher graph: START -> search -> scrape_index -> retrieve ->    *)
(* reflect -> (search | summarize) -> END.  A ResearcherError raised by    *)
(* search_node ends the run without a result ("ERROR").                    *)
(***************************************************************************)
MaxSearchResults == 2

\* the lists of URLs already scraped by earlier researchers of the run
GlobalScraped == {s \in SeqsUpTo(ResearchURLs, 2) : Cardinality(Range(s)) = Len(s)}

\* the orders in which list(set) may yield the members of S
Orderings(S) == {s \in SeqsUpTo(S, Cardinality(S)) : Range(s) = S}

\* no model call
NoReflectionResponse ==
    [kind |-> "none", has_keys |-> FALSE, confidence |-> 0, continue_research |-> FALSE,
     next_query |-> ""]

\* what the model call of reflect_node may give: the text of a JSON object with the keys
\* asked for; of an object one of whose values has another type than asked for (a
\* confidence that is no number, gaps that are no list); a text that is no JSON; the
\* text of a JSON value that is no object; or generate raises
ReflectionResponses ==
    [kind : {"object"}, has_keys : {TRUE}, confidence : {40, 90},
     continue_research : BOOLEAN, next_query : {"", "q"}]
        \cup {[NoReflectionResponse EXCEPT !.kind = k] :
                 k \in {"malformed_object", "unparsable", "not_object", "raised"}}

InitRes ==
    /\ \E g \in GlobalScraped : rs = initial_state(g)
    /\ rpc = "search"
    /\ reflect_passes = 0
    /\ reflect_llm_calls = 0
    /\ reflect_reply = "none"
    /\ scrape_calls = <<>>
    /\ OrchIdle
    /\ SessIdle
    /\ AuxIdle

Search ==
    /\ rpc = "search"
    /\ \/ \E valid_results \in SeqsUpTo(ResearchURLs, MaxSearchResults) :
            /\ rs' = search_node(rs, valid_results)
            /\ rpc' = "scrape_index"
       \/ /\ rpc' = "ERROR"
          /\ rs' = rs
    /\ UNCHANGED <<reflect_passes, reflect_llm_calls, reflect_reply, scrape_calls,
                 orchVars, sessVars, auxVars>>

ScrapeIndex ==
    /\ rpc = "scrape_index"
    /\ \E order \in Orderings(urls_to_scrape(rs)) :
         LET to_scrape == Take(order, SCRAPE_BATCH)
         IN  \E raised \in BOOLEAN, valid \in 0..Len(to_scrape) :
                /\ rs' = scrape_and_index_node(rs, to_scrape,
                                               [raised |-> raised, valid |-> valid])
                /\ scrape_calls' = IF to_scrape = <<>> THEN scrape_calls
                                   ELSE Append(scrape_calls, [to_scrape |-> to_scrape,
                                                              raised |-> raised])
    /\ rpc' = "retrieve"
    /\ UNCHANGED <<reflect_passes, reflect_llm_calls, reflect_reply, orchVars, sessVars, auxVars>>

Retrieve ==
    /\ rpc = "retrieve"
    /\ \E outcome \in RetrieveOutcomes : rs' = retrieve_node(rs, outcome)
    /\ rpc' = "reflect"
    /\ UNCHANGED <<reflect_passes, reflect_llm_calls, reflect_reply, scrape_calls,
                 orchVars, sessVars, auxVars>>

Reflect ==
    /\ rpc = "reflect"
    /\ \E response \in (IF reflect_consults_model(rs)
                         THEN ReflectionResponses ELSE {NoReflectionResponse}) :
         /\ rs' = reflect_node(rs, response)
         /\ reflect_reply' = response.kind
    /\ reflect_passes' = reflect_passes + 1
    /\ reflect_llm_calls' = reflect_llm_calls + (IF reflect_consults_model(rs) THEN 1 ELSE 0)
    /\ rpc' = should_continue(rs')
    /\ UNCHANGED <<scrape_calls, orchVars, sessVars, auxVars>>

Summarize ==
    /\ rpc = "summarize"
    /\ \E summary_ok \in BOOLEAN : rs' = summarize_node(rs, summary_ok)
    /\ rpc' = "END"
    /\ UNCHANGED <<reflect_passes, reflect_llm_calls, reflect_reply, scrape_calls,
                 orchVars, sessVars, auxVars>>

NextRes == Search \/ ScrapeIndex \/ Retrieve \/ Reflect \/ Summarize

SpecRes == InitRes /\ [][NextRes]_vars

\* both graphs: a run of the orchestrator graph, or a run of one researcher graph
InitGraphs == InitOrch \/ InitRes

NextGraphs == NextOrch \/ NextRes

SpecGraphs == InitGraphs /\ [][NextGraphs]_vars

\* both graphs, the orchestrator's run on a plan that names no topic twice
SpecGraphsDistinct == (InitOrchDistinct \/ InitRes) /\ [][NextGraphs]_vars

(***************************************************************************)
(* Claims about the orchestrator's dispatch/critique loop.                 *)
(***************************************************************************)
(***************************************************************************)
(* The service: WebSocket handlers of the sessions as tasks of one event   *)
(* loop thread, and the periodic sweep.  A handler runs until its next     *)
(* await; an operation of a pipeline is suspended at awaits between its    *)
(* accessor calls.                                                         *)
(***************************************************************************)
InitSess ==
    /\ \E shared \in BOOLEAN : SessStart(shared)
    /\ OrchIdle
    /\ ResIdle
    /\ AuxIdle

\* websocket_search up to its first receive: a fresh session id, set_current_session,
\* a pipeline registered
Connect(s) ==
    /\ conn[s] = "none"
    /\ conn' = [conn EXCEPT ![s] = "open"]
    /\ current' = s
    /\ pipelines' = pipelines \cup {s}
    /\ log_callbacks' = log_callbacks \cup {s}
    /\ cleaned' = {}
    /\ UNCHANGED torn_down
    /\ UNCHANGED <<sessions, op, now, next_instance, index, index_shared,
                   last_access, last_returned, orchVars, resVars, auxVars>>

\* create_plan / refine_plan / execute_research up to its first await
StartOp(s) ==
    /\ conn[s] = "open"
    /\ op[s] = "idle"
    /\ current' = s
    /\ op' = [op EXCEPT ![s] = "running"]
    /\ cleaned' = {}
    /\ UNCHANGED torn_down
    /\ UNCHANGED <<sessions, pipelines, log_callbacks, conn, now, next_instance, index,
                   index_shared, last_access, last_returned, orchVars, resVars, auxVars>>

\* what the caller of an accessor does with the service it got
AccessEffects == {"read", "save_search", "index"}

\* get_cache / get_searcher / get_scraper / get_rag_store / get_llm called by the
\* running operation of session s, and the use of the service it returns
Access(s) ==
    /\ op[s] = "running"
    /\ current # None
    /\ sessions[current] # NoServices \/ next_instance <= MaxInstances
    /\ LET sid == current
           S1 == get_or_create_session(sessions, sid, next_instance, now, index_shared)
           services == S1[sid]
       IN  /\ \E effect \in AccessEffects :
                 \/ /\ effect = "read"
                    /\ sessions' = S1
                    /\ index' = index
                 \/ /\ effect = "save_search"
                    /\ \E k \in CacheKeys :
                         sessions' = [S1 EXCEPT ![sid].cache = @ \cup {k}]
                    /\ index' = index
                 \/ /\ effect = "index"
                    /\ \E c \in CollectionIds :
                         /\ sessions' = [S1 EXCEPT ![sid].collections = @ \cup {c}]
                         /\ index' = [index EXCEPT ![services.client] = @ \cup {c}]
           /\ next_instance' = IF services.instance = next_instance
                               THEN next_instance + 1 ELSE next_instance
           /\ last_access' = [caller |-> s, resolved |-> services.session_id]
           /\ last_returned' = [last_returned EXCEPT ![sid] = services.instance]
    /\ cleaned' = {}
    /\ UNCHANGED torn_down
    /\ UNCHANGED <<pipelines, log_callbacks, current, conn, op, now, index_shared,
                   orchVars, resVars, auxVars>>

\* the operation returns to the handler
FinishOp(s) ==
    /\ op[s] = "running"
    /\ op' = [op EXCEPT ![s] = "idle"]
    /\ cleaned' = {}
    /\ UNCHANGED torn_down
    /\ UNCHANGED <<sessions, pipelines, log_callbacks, current, conn, now, next_instance,
                   index, index_shared, last_access, last_returned, orchVars, resVars,
                   auxVars>>

\* pipeline.clear: set_current_session, get_cache().clear(), get_rag_store().clear_all(),
\* with no await in between
Clear(s) ==
    /\ conn[s] = "open"
    /\ op[s] = "idle"
    /\ sessions[s] # NoServices \/ next_instance <= MaxInstances
    /\ LET S1 == get_or_create_session(sessions, s, next_instance, now, index_shared)
           n1 == IF S1[s].instance = next_instance THEN next_instance + 1 ELSE next_instance
           S2 == get_or_create_session([S1 EXCEPT ![s].cache = {}], s, n1, now, index_shared)
           services == S2[s]
       IN  /\ sessions' = [S2 EXCEPT ![s].collections = {}]
           /\ index' = index_after_clear_all(index, services)
           /\ next_instance' = IF services.instance = n1 THEN n1 + 1 ELSE n1
           /\ last_access' = [caller |-> s, resolved |-> services.session_id]
           /\ last_returned' = [last_returned EXCEPT ![s] = services.instance]
    /\ current' = s
    /\ cleaned' = {s}
    /\ UNCHANGED torn_down
    /\ UNCHANGED <<pipelines, log_callbacks, conn, op, now, index_shared, orchVars, resVars,
                   auxVars>>

\* the handler's finally block: remove_log_callback(log_to_ws),
\* cleanup_session(session_id), _pipelines.pop(session_id)
Disconnect(s) ==
    /\ conn[s] = "open"
    /\ log_callbacks' = log_callbacks \ {s}
    /\ conn' = [conn EXCEPT ![s] = "closed"]
    /\ op' = [op EXCEPT ![s] = "idle"]
    /\ IF sessions[s] # NoServices
       THEN /\ index' = index_after_clear_all(index, sessions[s])
            /\ sessions' = [sessions EXCEPT ![s] = NoServices]
            /\ cleaned' = {s}
            /\ torn_down' = torn_down \cup {s}
       ELSE /\ UNCHANGED <<index, sessions, torn_down>>
            /\ cleaned' = {}
    /\ last_returned' = [last_returned EXCEPT ![s] = 0]
    /\ pipelines' = pipelines \ {s}
    /\ UNCHANGED <<current, now, next_instance, index_shared, last_access, orchVars, resVars, auxVars>>

\* periodic_cleanup: sleep(600), then cleanup_old_sessions(max_age_seconds=3600)
PeriodicCleanup ==
    /\ now < MaxClock
    /\ now' = now + SWEEP_PERIOD
    /\ LET old == old_sessions(sessions, now')
       IN  /\ index' = index_after_cleanups(index, sessions, old)
           /\ sessions' = [sid \in SessionIds |->
                             IF sid \in old THEN NoServices ELSE sessions[sid]]
           /\ last_returned' = [sid \in SessionIds |->
                                  IF sid \in old THEN 0 ELSE last_returned[sid]]
           /\ cleaned' = old
    /\ UNCHANGED torn_down
    /\ UNCHANGED <<pipelines, log_callbacks, current, conn, op, next_instance, index_shared,
                   last_access, orchVars, resVars, auxVars>>

NextSess ==
    \/ \E s \in SessionIds : Connect(s)
    \/ \E s \in SessionIds : StartOp(s)
    \/ \E s \in SessionIds : Access(s)
    \/ \E s \in SessionIds : FinishOp(s)
    \/ \E s \in SessionIds : Clear(s)
    \/ \E s \in SessionIds : Disconnect(s)
    \/ PeriodicCleanup

SpecSess == InitSess /\ [][NextSess]_vars

(***************************************************************************)
(* One session's cached search client under sequential calls.              *)
(***************************************************************************)
cacheFrame == <<orchVars, resVars, sessVars, exportVars, wsVars, runVars, llmVars,
               extVars>>

InitCache ==
    /\ CacheIdle
    /\ ExportIdle
    /\ WsIdle
    /\ RunIdle
    /\ LlmIdle
    /\ ExtIdle
    /\ OrchIdle
    /\ ResIdle
    /\ SessIdle

\* await CachedGoogleSearcher.search(query, num_results)
CachedSearch ==
    /\ \E query \in Queries, num_results \in 1..Cardinality(SearchItems) :
         /\ cache_hit(search_cache, query) \/ net_searches[query] < MaxNetSearches
         /\ \E results \in NetworkResults(num_results) :
              /\ search_returned' =
                     cached_search_result(search_cache, query, num_results, results)
              /\ search_cache' = cached_search_cache(search_cache, query, results)
              /\ net_searches' =
                     IF cache_hit(search_cache, query) THEN net_searches
                     ELSE [net_searches EXCEPT ![query] = @ + 1]
    /\ UNCHANGED cacheFrame

\* SimpleCache.clear
ClearCache ==
    /\ search_cache' = EmptyCache
    /\ net_searches' = [q \in Queries |-> 0]
    /\ UNCHANGED <<search_returned, cacheFrame>>

NextCache == CachedSearch \/ ClearCache

SpecCache == InitCache /\ [][NextCache]_vars

batch_topics(tasks) == {tasks[k].topic : k \in 1..Len(tasks)}

\* C1: every orchestrator run eventually reaches synthesize, whatever the researcher
\* outcomes and the critique additions; the dispatch/critique loop cannot repeat forever.
C1_RunReachesSynthesize == (opc = "plan") ~> (opc = "synthesize")

\* C2: a dispatch call does not run a topic that has a retry-queue entry (attempt a,
\* last_attempt_at i) while iteration - i < 2^(a-1).
C2_BackoffRespected ==
    [][opc = "dispatch" =>
         \A i \in 1..Len(orch.retry_queue) :
             LET r == orch.retry_queue[i]
             IN  orch.iteration - r.last_attempt_at < Pow2(r.attempt - 1)
                     => r.topic \notin batch_topics(batch')]_vars

\* C3: a topic whose retry entry has reached attempt 3 is never run again by a dispatch
\* call, and once the entry's wait is over the dispatch call moves the topic to
\* failed_topics and drops the entry from the retry queue.
C3_RetriesBounded ==
    [][opc = "dispatch" =>
         \A i \in 1..Len(orch.retry_queue) :
             LET r == orch.retry_queue[i]
             IN  r.attempt >= 3 =>
                   /\ r.topic \notin batch_topics(batch')
                   /\ (orch.iteration - r.last_attempt_at >= Pow2(r.attempt - 1)
                         => /\ r.topic \in orch'.failed_topics
                            /\ r \notin Range(orch'.retry_queue))]_vars

\* C4: in every state reached after a dispatch call, no retry_queue entry names a topic
\* that is in completed or in failed_topics.
C4_QueueDisjointFromSettled ==
    opc = "critique" =>
        \A i \in 1..Len(orch.retry_queue) :
            /\ orch.retry_queue[i].topic \notin completed_topics(orch)
            /\ orch.retry_queue[i].topic \notin orch.failed_topics

\* C5: in both graphs the iteration counter never decreases and never exceeds
\* max_iterations: the orchestrator's across plan/dispatch/critique/synthesize, a
\* researcher's across search/scrape_index/retrieve/reflect/summarize.
C5_IterationMonotoneBounded ==
    /\ [](/\ orch.iteration <= orch.max_iterations
          /\ rs.iteration <= rs.max_iterations)
    /\ [][/\ orch'.iteration >= orch.iteration
          /\ rs'.iteration >= rs.iteration]_vars

\* an orchestrator run stopped by the cap: iteration has reached max_iterations
\* while a retry is still queued
C5_Witness ==
    /\ opc = "synthesize"
    /\ orch.iteration = orch.max_iterations
    /\ orch.retry_queue # <<>>

\* C6: every id in the citations of a synthesis result (normal or fallback) is the id
\* of an entry of its sources, whatever bracketed numbers the report text holds.
C6_CitationsAreSourceIds ==
    opc = "END" =>
        \A c \in Range(orch.synthesis_result.citations) :
            \E i \in 1..Len(orch.synthesis_result.sources_used) :
                orch.synthesis_result.sources_used[i].id = c

\* C7: a researcher run passes through reflect at most max_iterations times; the pass
\* on which the cap is reached appends no reflection, calls no model and is followed by
\* summarize, whatever continue_research the model returned before.
C7_ReflectCapForcesSummarize ==
    [][rpc = "reflect" =>
         /\ reflect_passes' <= rs.max_iterations
         /\ (rs.iteration + 1 >= rs.max_iterations =>
               /\ rpc' = "summarize"
               /\ rs'.reflections = rs.reflections
               /\ reflect_llm_calls' = reflect_llm_calls)]_vars

\* a run forced to summarize on its max_iterations-th pass through reflect although
\* its last reflection asks to continue
C7_Witness ==
    /\ rpc = "summarize"
    /\ reflect_passes = rs.max_iterations
    /\ reflect_llm_calls < reflect_passes
    /\ rs.reflections # <<>>
    /\ rs.reflections[Len(rs.reflections)].continue_research

\* C8: every accessor call made for a session's operation resolves to that session's
\* SessionServices, also when another session connects or starts an operation while
\* the operation is suspended.
C8_AccessResolvesToCaller == last_access.caller = last_access.resolved

\* C9: distinct session ids have distinct SessionServices instances, and a step that
\* clears or cleans up some sessions leaves the cache and the RAG collections of every
\* other session unchanged.
C9_SessionIsolation ==
    /\ [](\A s, t \in SessionIds :
            (s # t /\ sessions[s] # NoServices /\ sessions[t] # NoServices)
                => sessions[s].instance # sessions[t].instance)
    /\ [][\A t \in SessionIds :
            (cleaned' # {} /\ t \notin cleaned' /\ sessions[t] # NoServices)
                => /\ sessions'[t].cache = sessions[t].cache
                   /\ rag_collections(sessions', index', t)
                          = rag_collections(sessions, index, t)]_vars

\* C10: the session manager holds at most one SessionServices per session id, and
\* get_or_create_session calls for an id with no cleanup of the id in between return
\* the same instance.
C10_OneServicesPerId ==
    /\ [](\A x \in SessionIds :
            /\ Cardinality({sid \in SessionIds : sessions[sid].session_id = x}) <= 1
            /\ sessions[x] # NoServices => sessions[x].session_id = x
            /\ last_returned[x] # 0 => sessions[x].instance = last_returned[x])
    /\ [][\A x \in SessionIds :
            (last_returned[x] # 0 /\ last_returned'[x] # 0)
                => last_returned'[x] = last_returned[x]]_vars

\* a session whose services were returned for a cache write and for an index write
\* with no cleanup in between, while the other session's services exist as well
C10_Witness ==
    \E x \in SessionIds, y \in SessionIds :
        /\ x # y
        /\ sessions[x] # NoServices
        /\ sessions[x].cache # {}
        /\ sessions[x].collections # {}
        /\ last_returned[x] = sessions[x].instance
        /\ sessions[y] # NoServices

\* C11: between two clears, the network search client is called at most once per query
\* string by sequential CachedGoogleSearcher.search calls, whatever the first call
\* returned.
C11_OneNetworkSearchPerQuery == \A q \in Queries : net_searches[q] <= 1

MaxSources == 3

SourceURLs == {URL_a, URL_a_slash, URL_a_frag, URL_b, URL_slash}

\* ---- one call of GoogleSearcher.search ----
MaxNumResults == 101

gsFrame == <<orchVars, resVars, sessVars, cacheVars, exportVars, wsVars, runVars, llmVars,
             cpVars>>

\* the numbers of items a page of the search API may hold
PageLengths == {0, 7, PAGE_SIZE}

\* the items of the page that starts at start: each item told apart by its rank
page_items(start, n) == [j \in 1..n |-> start + j - 1]

PageFailures == {"http_429", "http_error", "transport_error"}

InitGs ==
    /\ gs_num_results \in {1, 15, MAX_RESULTS, MaxNumResults}
    /\ gs_results = <<>>
    /\ gs_start_index = 1
    /\ gs_attempt = 0
    /\ gs_pc = "fetch"
    /\ gs_pages = <<>>
    /\ gs_failure = "none"
    /\ CpIdle
    /\ CacheIdle
    /\ ExportIdle
    /\ WsIdle
    /\ RunIdle
    /\ LlmIdle
    /\ OrchIdle
    /\ ResIdle
    /\ SessIdle

\* one pass of the loop of _search_with_retry and, when it returns, the rest of the
\* pass of the while loop of search that called it
GsAttempt ==
    /\ gs_pc = "fetch"
    /\ gs_attempt < max_attempts
    /\ LET num_to_fetch == Min(gs_num_results, MAX_RESULTS)
       IN  \/ \E n \in PageLengths :
                LET items == page_items(gs_start_index, n)
                    results == append_items(gs_results, items, num_to_fetch)
                IN  /\ gs_pages' = Append(gs_pages, items)
                    /\ gs_attempt' = 0
                    /\ gs_failure' = "none"
                    /\ IF items = <<>>
                       THEN /\ gs_pc' = "returned"
                            /\ UNCHANGED <<gs_results, gs_start_index>>
                       ELSE /\ gs_results' = results
                            /\ gs_start_index' = gs_start_index + PAGE_SIZE
                            /\ gs_pc' = IF Len(results) < num_to_fetch THEN "fetch"
                                        ELSE "returned"
           \/ \E failure \in PageFailures :
                IF failure = "http_429" /\ gs_attempt # max_attempts - 1
                THEN /\ gs_attempt' = gs_attempt + 1
                     /\ UNCHANGED <<gs_results, gs_start_index, gs_pc, gs_pages, gs_failure>>
                ELSE /\ gs_failure' = failure
                     /\ gs_pc' = "returned"
                     /\ UNCHANGED <<gs_results, gs_start_index, gs_attempt, gs_pages>>
    /\ UNCHANGED <<gs_num_results, gsFrame>>

SpecGs == InitGs /\ [][GsAttempt]_vars

\* the items of pages k..Len(pages), one after the other
RECURSIVE items_from(_, _)
items_from(pages, k) ==
    IF k > Len(pages) THEN <<>> ELSE pages[k] \o items_from(pages, k + 1)

\* C22: a page failure (a non-429 HTTP error, a transport error, or a 429 on the third
\* attempt of the page) ends the pagination, and search returns exactly the items of
\* the pages fetched before, at most min(num_results, 100) of them; a 429 is what
\* failed a page only on the page's third attempt.
C22_SearchReturnsEarlierPages ==
    /\ Len(gs_results) <= gs_num_results /\ Len(gs_results) <= 100
    /\ gs_failure # "none" =>
         /\ gs_pc = "returned"
         /\ gs_results = items_from(gs_pages, 1)
         /\ gs_failure = "http_429" => gs_attempt = 2

\* a search for 15 results that returns the 10 items of its first page because the
\* second page was rate-limited three times
C22_Witness ==
    /\ gs_pc = "returned"
    /\ gs_num_results = 15
    /\ gs_failure = "http_429"
    /\ gs_attempt = 2
    /\ Len(gs_results) = 10
    /\ gs_start_index = 11

\* ---- one call of GeminiLLM.generate ----
llmFrame == <<orchVars, resVars, sessVars, cacheVars, exportVars, wsVars, runVars,
               extVars>>

InitLlm ==
    /\ llm_pc = "calling"
    /\ llm_attempt = 0
    /\ llm_errors = <<>>
    /\ llm_calls = 0
    /\ llm_sleeps = 0
    /\ llm_raised = "none"
    /\ CacheIdle
    /\ ExportIdle
    /\ WsIdle
    /\ RunIdle
    /\ ExtIdle
    /\ OrchIdle
    /\ ResIdle
    /\ SessIdle

\* one pass of the retry loop up to its return, its raise or its sleep: the call of
\* the external model returns a response, or the call (or reading the response) raises
LlmCall ==
    /\ llm_pc = "calling"
    /\ llm_attempt < max_retries
    /\ llm_calls' = llm_calls + 1
    /\ \/ /\ llm_pc' = "returned"
          /\ UNCHANGED <<llm_errors, llm_raised>>
       \/ \E error \in LlmErrors :
             /\ llm_errors' = Append(llm_errors, error)
             /\ llm_pc' = IF should_retry(error, llm_attempt) THEN "sleeping" ELSE "raised"
             /\ llm_raised' = IF should_retry(error, llm_attempt) THEN "none" ELSE "error"
    /\ UNCHANGED <<llm_attempt, llm_sleeps, llmFrame>>

\* asyncio.sleep(delay), then the next pass of the loop, or the raise after the loop
LlmSleep ==
    /\ llm_pc = "sleeping"
    /\ llm_sleeps' = llm_sleeps + 1
    /\ llm_attempt' = llm_attempt + 1
    /\ llm_pc' = IF llm_attempt + 1 < max_retries THEN "calling" ELSE "raised"
    /\ llm_raised' = IF llm_attempt + 1 < max_retries THEN "none" ELSE "max_retries"
    /\ UNCHANGED <<llm_errors, llm_calls, llmFrame>>

NextLlm == LlmCall \/ LlmSleep

SpecLlm == InitLlm /\ [][NextLlm]_vars

\* C20: generate calls the external model at most 5 times; every call but the first
\* follows an error whose text contains "429" or "Resource exhausted" and one backoff
\* sleep; once a call has raised any other error, generate has raised with no further
\* call and no sleep after that error.
C20_RetryOnlyOnRateLimit ==
    LET rate_limit(k) == llm_errors[k].has_429 \/ llm_errors[k].has_resource_exhausted
    IN  /\ llm_calls <= 5
        /\ \A k \in 1..Len(llm_errors) :
             /\ llm_calls > k => rate_limit(k) /\ llm_sleeps >= k
             /\ ~rate_limit(k) =>
                  /\ llm_pc = "raised"
                  /\ llm_calls = k
                  /\ llm_sleeps = k - 1

\* two rate-limit errors, each followed by a sleep, then an error of another kind:
\* raised after the third call without a third sleep
C20_Witness ==
    /\ llm_pc = "raised"
    /\ llm_calls = 3
    /\ llm_sleeps = 2
    /\ llm_errors[1].has_429
    /\ llm_errors[2].has_resource_exhausted /\ ~llm_errors[2].has_429
    /\ ~llm_errors[3].has_429 /\ ~llm_errors[3].has_resource_exhausted

\* C21: when all 5 attempts of generate fail with a rate-limit error, generate raises
\* the generic "max retries exceeded" error.
C21_ExhaustedRetriesRaiseGeneric ==
    (/\ Len(llm_errors) = 5
     /\ \A k \in 1..5 : llm_errors[k].has_429 \/ llm_errors[k].has_resource_exhausted)
        => llm_raised = "max_retries"

\* ---- the execute methods of one pipeline applied to one plan and graph outcome ----
MaxReportChars == 120

runFrame == <<orchVars, resVars, sessVars, cacheVars, exportVars, wsVars, llmVars,
               extVars>>

\* a report of n characters, each told apart by its position
report_of(n) == [k \in 1..n |-> k]

\* what the orchestrator graph may return: synthesize_node always sets synthesis_result
GraphResults ==
    [synthesis_result :
        [present : {TRUE},
         report_text : {report_of(n) : n \in 0..MaxReportChars},
         sources_used : {<<[url |-> URL_a, id |-> 1]>>},
         citations : {<<>>, <<1>>},
         metadata : {[confidence |-> 60, source_count |-> 1, sources_cited |-> 0]}],
     report : {<<>>},
     all_sources : {<<[url |-> URL_a], [url |-> URL_a_slash]>>},
     sub_topics : {<<"t1">>, <<"t1", "t2">>},
     iteration : {1}]

InitRun ==
    /\ run_plan = [query |-> "q", sub_topics |-> <<"t1">>]
    /\ run_graph \in GraphResults
    /\ run_pc = "idle"
    /\ run_i = 0
    /\ run_events = <<>>
    /\ run_results = [m \in ExecuteMethods |-> NoResult]
    /\ run_clock = 1
    /\ last_result = NoResult
    /\ run_complete = <<>>
    /\ run_export = NoExportAnswer
    /\ CacheIdle
    /\ ExportIdle
    /\ WsIdle
    /\ LlmIdle
    /\ ExtIdle
    /\ OrchIdle
    /\ ResIdle
    /\ SessIdle

\* execute_research, from graph.ainvoke's return to the method's return
ExecuteResearch ==
    /\ run_pc = "idle"
    /\ run_results["execute_research"] = NoResult
    /\ LET final_result == execute_research_result(run_plan, run_graph, run_clock)
       IN  /\ run_results' = [run_results EXCEPT !["execute_research"] = final_result]
           /\ last_result' = final_result
    /\ run_clock' = run_clock + 1
    /\ run_pc' = "returned"
    /\ run_export' = NoExportAnswer
    /\ UNCHANGED <<run_plan, run_graph, run_i, run_events, run_complete, runFrame>>

\* websocket_search after execute_research has returned:
\* ws.send_json({"type": "complete", "result": result})
SendComplete ==
    /\ run_pc = "returned"
    /\ run_complete' = Append(run_complete, run_results["execute_research"])
    /\ run_pc' = "idle"
    /\ run_export' = NoExportAnswer
    /\ UNCHANGED <<run_plan, run_graph, run_i, run_events, run_results, run_clock,
                   last_result, runFrame>>

\* execute_research_streaming without a transport handle, from graph.ainvoke's return
ExecuteStreaming ==
    /\ run_pc = "idle"
    /\ run_results["streaming"] = NoResult
    /\ LET final_result == streaming_result(run_plan, run_graph, run_clock, FALSE)
       IN  /\ run_results' = [run_results EXCEPT !["streaming"] = final_result]
           /\ last_result' = final_result
    /\ run_clock' = run_clock + 1
    /\ run_export' = NoExportAnswer
    /\ UNCHANGED <<run_plan, run_graph, run_pc, run_i, run_events, run_complete, runFrame>>

\* execute_research_streaming with a transport handle, from graph.ainvoke's return up
\* to the chunk loop
StreamStart ==
    /\ run_pc = "idle"
    /\ run_results["streaming_ws"] = NoResult
    /\ run_events = <<>>
    /\ run_events' = <<[type |-> "synthesis_start"]>>
    /\ run_i' = 0
    /\ run_pc' = "chunks"
    /\ run_export' = NoExportAnswer
    /\ UNCHANGED <<run_plan, run_graph, run_results, run_clock, last_result, run_complete,
                   runFrame>>

\* one pass of the chunk loop
StreamChunk ==
    /\ run_pc = "chunks"
    /\ run_i < Len(synthesis_of(run_graph).report_text)
    /\ run_events' = Append(run_events,
                            synthesis_chunk(synthesis_of(run_graph).report_text, run_i))
    /\ run_i' = run_i + chunk_size
    /\ run_export' = NoExportAnswer
    /\ UNCHANGED <<run_plan, run_graph, run_pc, run_results, run_clock, last_result,
                   run_complete, runFrame>>

\* after the chunk loop: final_result is built and the complete event is sent
\* (await ws.send_json)
StreamComplete ==
    /\ run_pc = "chunks"
    /\ run_i >= Len(synthesis_of(run_graph).report_text)
    /\ LET final_result == streaming_result(run_plan, run_graph, run_clock, TRUE)
       IN  /\ run_events' = Append(run_events, [type |-> "complete", result |-> final_result])
           /\ run_complete' = Append(run_complete, final_result)
    /\ run_clock' = run_clock + 1
    /\ run_pc' = "complete_sent"
    /\ run_export' = NoExportAnswer
    /\ UNCHANGED <<run_plan, run_graph, run_i, run_results, last_result, runFrame>>

\* the send of the complete event has returned: self.last_result = final_result,
\* return final_result
StreamReturn ==
    /\ run_pc = "complete_sent"
    /\ LET final_result == run_events[Len(run_events)].result
       IN  /\ run_results' = [run_results EXCEPT !["streaming_ws"] = final_result]
           /\ last_result' = final_result
    /\ run_pc' = "idle"
    /\ run_export' = NoExportAnswer
    /\ UNCHANGED <<run_plan, run_graph, run_i, run_events, run_clock, run_complete, runFrame>>

\* the next send_json raises: the exception leaves execute_research_streaming
StreamSendFails ==
    /\ run_pc = "chunks"
    /\ run_pc' = "idle"
    /\ run_export' = NoExportAnswer
    /\ UNCHANGED <<run_plan, run_graph, run_i, run_events, run_results, run_clock,
                   last_result, run_complete, runFrame>>

\* POST /api/export with the session id of the connection, handled between two steps
\* of the connection's handler: the pipeline is registered as long as the handler runs
ExportReport ==
    /\ \E status \in export_status(TRUE, last_result # NoResult) :
          run_export' = [status |-> status,
                         result |-> IF status = 200 THEN last_result ELSE NoResult]
    /\ UNCHANGED <<run_plan, run_graph, run_pc, run_i, run_events, run_results, run_clock,
                   last_result, run_complete, runFrame>>

NextRun ==
    \/ ExecuteResearch
    \/ SendComplete
    \/ ExecuteStreaming
    \/ StreamStart
    \/ StreamChunk
    \/ StreamComplete
    \/ StreamReturn
    \/ StreamSendFails
    \/ ExportReport

SpecRun == InitRun /\ [][NextRun]_vars

\* the concatenation of the chunks of events k..Len(events) that are chunk events
RECURSIVE chunks_from(_, _)
chunks_from(events, k) ==
    IF k > Len(events) THEN <<>>
    ELSE (IF events[k].type = "synthesis_chunk" THEN events[k].chunk ELSE <<>>)
            \o chunks_from(events, k + 1)

\* C18: the events of a streaming run with a transport handle are one synthesis_start,
\* then synthesis_chunk events carrying consecutive slices of report_text of 50
\* characters (the last one possibly shorter) with progress non-decreasing in 0..100,
\* then, when the run returns, one complete event after which nothing is sent; the
\* slices sent before complete concatenate to report_text.
C18_StreamingEventOrder ==
    LET report_text == run_graph.synthesis_result.report_text
        n == Len(run_events)
        chunk_at(k) == SubSeq(report_text, 50 * (k - 2) + 1, Min(50 * (k - 1), Len(report_text)))
    IN  /\ n >= 1 => run_events[1].type = "synthesis_start"
        /\ \A k \in 2..n :
             \/ /\ run_events[k].type = "synthesis_chunk"
                /\ run_events[k].chunk = chunk_at(k)
                /\ run_events[k].chunk # <<>>
                /\ run_events[k].progress \in 0..100
                /\ k > 2 => run_events[k - 1].progress <= run_events[k].progress
             \/ /\ run_events[k].type = "complete"
                /\ k = n
                /\ chunks_from(run_events, 1) = report_text
                /\ run_events[k].result.report_text = report_text
        /\ run_results["streaming_ws"] # NoResult =>
             n >= 2 /\ run_events[n].type = "complete"

\* a finished streaming run of a report of 101 characters: start, three chunks, complete
C18_Witness ==
    /\ run_results["streaming_ws"] # NoResult
    /\ Len(run_graph.synthesis_result.report_text) = 101
    /\ Len(run_events) = 5
    /\ Len(run_events[4].chunk) = 1
    /\ run_events[5].type = "complete"

\* C19: for one plan and one graph outcome, the results returned by execute_research,
\* by execute_research_streaming without a transport handle and by
\* execute_research_streaming with one are equal in every field but timestamp, and
\* each method leaves its result in the pipeline's last_result.
C19_StreamingRefinesExecute ==
    /\ \A m1, m2 \in ExecuteMethods :
          (run_results[m1] # NoResult /\ run_results[m2] # NoResult) =>
              [run_results[m1] EXCEPT !.timestamp = 0] = [run_results[m2] EXCEPT !.timestamp = 0]
    /\ \A m \in ExecuteMethods :
          (run_results[m] # NoResult
              /\ \A m2 \in ExecuteMethods : run_results[m2].timestamp <= run_results[m].timestamp)
             => last_result = run_results[m]

\* all three methods have returned, at different times, for a graph outcome whose
\* sub-topics differ from the plan's
C19_Witness ==
    /\ \A m \in ExecuteMethods : run_results[m] # NoResult
    /\ run_results["execute_research"].timestamp # run_results["streaming_ws"].timestamp
    /\ run_graph.sub_topics # run_plan.sub_topics
    /\ last_result = run_results["streaming"]

\* ---- one WebSocket connection: its commands, its teardown, and export requests ----
wsFrame == <<orchVars, resVars, sessVars, cacheVars, exportVars, runVars, llmVars,
               extVars>>

InitWs ==
    /\ WsIdle
    /\ CacheIdle
    /\ ExportIdle
    /\ RunIdle
    /\ LlmIdle
    /\ ExtIdle
    /\ OrchIdle
    /\ ResIdle
    /\ SessIdle

\* websocket_search up to the receive loop
WsConnect(s) ==
    /\ ws_conn[s] = "none"
    /\ ws_conn' = [ws_conn EXCEPT ![s] = "open"]
    /\ ws_reg' = [ws_reg EXCEPT ![s] = [callback |-> TRUE, session |-> FALSE, pipeline |-> TRUE]]
    /\ ws_export' = NoExportRequest
    /\ UNCHANGED <<ws_last_result, ws_command, ws_reply, wsFrame>>

\* the finally block of websocket_search
teardown(s) ==
    /\ ws_conn' = [ws_conn EXCEPT ![s] = "closed"]
    /\ ws_reg' = [ws_reg EXCEPT ![s] = Unregistered]

\* one pass of the receive loop for a command: well_formed says whether the command
\* carries its query or plan, raised whether the try block of the command (or the
\* call of pipeline.clear) raised, created whether the pipeline method got as far as
\* creating the session's services, stored whether it got as far as setting last_result
WsCommand(s) ==
    /\ ws_conn[s] = "open"
    /\ \E type \in CommandTypes, well_formed, raised, created, stored \in BOOLEAN :
         /\ type \in {"refine_plan", "clear"} => well_formed
         /\ ~well_formed => ~raised /\ ~created
         /\ ~raised => created
         /\ stored => type = "execute_research" /\ created
         /\ (type = "execute_research" /\ well_formed /\ ~raised) => stored
         /\ ws_command' = [ws_command EXCEPT ![s] = [type |-> type, raised |-> raised]]
         /\ IF ~well_formed
            THEN /\ ws_reply' = [ws_reply EXCEPT ![s] =
                                   IF type = "create_plan" THEN "error" ELSE "none"]
                 /\ UNCHANGED <<ws_conn, ws_reg, ws_last_result>>
            ELSE IF raised /\ ~handler_catches(type)
            THEN /\ teardown(s)
                 /\ ws_reply' = [ws_reply EXCEPT ![s] = "none"]
                 /\ UNCHANGED ws_last_result
            ELSE /\ ws_reply' = [ws_reply EXCEPT ![s] =
                                   IF raised THEN "error" ELSE success_reply(type)]
                 /\ ws_reg' = [ws_reg EXCEPT ![s].session = @ \/ created]
                 /\ ws_last_result' = [ws_last_result EXCEPT ![s] = @ \/ stored]
                 /\ UNCHANGED ws_conn
    /\ ws_export' = NoExportRequest
    /\ UNCHANGED wsFrame

\* receive_json or a send raising because the client is gone
WsDisconnect(s) ==
    /\ ws_conn[s] = "open"
    /\ teardown(s)
    /\ ws_command' = [ws_command EXCEPT ![s] = NoCommand]
    /\ ws_reply' = [ws_reply EXCEPT ![s] = "none"]
    /\ ws_export' = NoExportRequest
    /\ UNCHANGED <<ws_last_result, wsFrame>>

\* POST /api/export with the session id of a connection
ExportRequest(s) ==
    /\ \E status \in export_status(ws_reg[s].pipeline, ws_last_result[s]) :
         ws_export' = [session_id |-> s, status |-> status]
    /\ UNCHANGED <<ws_conn, ws_reg, ws_last_result, ws_command, ws_reply, wsFrame>>

NextWs ==
    \/ \E s \in SessionIds : WsConnect(s)
    \/ \E s \in SessionIds : WsCommand(s)
    \/ \E s \in SessionIds : WsDisconnect(s)
    \/ \E s \in SessionIds : ExportRequest(s)

SpecWs == InitWs /\ [][NextWs]_vars

\* C15: a command whose handler raised is answered by an error reply, and the
\* connection stays open with its log callback and pipeline still registered.
C15_HandlerErrorKeepsConnection ==
    \A s \in SessionIds :
       ws_command[s].raised =>
           /\ ws_reply[s] = "error"
           /\ ws_conn[s] = "open"
           /\ ws_reg[s].callback /\ ws_reg[s].pipeline

\* C17: POST /api/export answers 404 whenever the session has no registered pipeline
\* or its pipeline has no last_result.
C17_ExportNeedsResult ==
    \A s \in SessionIds :
       (ws_export.session_id = s /\ (~ws_reg[s].pipeline \/ ~ws_last_result[s]))
           => ws_export.status = 404

\* export requests answered 404: for a connection torn down after its research run
\* completed, and for an open connection that has run no research yet
C17_Witness ==
    \E s \in SessionIds :
       /\ ws_export = [session_id |-> s, status |-> 404]
       /\ ws_conn[s] = "closed"
       /\ ws_last_result[s]
       /\ \E t \in SessionIds : ws_conn[t] = "open" /\ ~ws_last_result[t]

\* ---- export_to_markdown_from_json applied to results of a research run ----
MaxReportLen == 4

ReportChars == {"[", "]", ","} \cup Digits \cup Whitespace

\* the source lists synthesize_node can put into a result
ResultSources ==
    {with_ids(deduplicate_sources([i \in 1..Len(urls) |-> [url |-> urls[i]]])) :
        urls \in SeqsUpTo(SourceURLs, MaxSources)}

InitExport ==
    /\ export_result \in [report_text : SeqsUpTo(ReportChars, MaxReportLen),
                          sources : ResultSources]
    /\ export_md = [written |-> FALSE, references |-> <<>>]
    /\ CacheIdle
    /\ WsIdle
    /\ RunIdle
    /\ LlmIdle
    /\ ExtIdle
    /\ OrchIdle
    /\ ResIdle
    /\ SessIdle

ExportMarkdown ==
    /\ ~export_md.written
    /\ export_md' = [written |-> TRUE, references |-> export_references(export_result)]
    /\ UNCHANGED <<export_result, orchVars, resVars, sessVars, cacheVars, wsVars, runVars,
                   llmVars, extVars>>

SpecExport == InitExport /\ [][ExportMarkdown]_vars

\* source id k stands in a bracketed group of report_text: between a "[" and a "]"
\* with only digits, commas and whitespace in between, as an item made of digits only
\* (whitespace around it aside) delimited by the brackets or commas
cited_in(text, k) ==
    \E p, q \in 1..Len(text) :
       /\ text[p] = "[" /\ text[q] = "]"
       /\ \A r \in (p + 1)..(q - 1) : text[r] \in CitationClass
       /\ \E a, b \in (p + 1)..(q - 1) :
            /\ a <= b
            /\ \A r \in a..b : text[r] \in Digits
            /\ int(SubSeq(text, a, b)) = k
            /\ \E l \in p..(a - 1) :
                 text[l] \in {"[", ","} /\ \A r \in (l + 1)..(a - 1) : text[r] \in Whitespace
            /\ \E l \in (b + 1)..q :
                 text[l] \in {"]", ","} /\ \A r \in (b + 1)..(l - 1) : text[r] \in Whitespace

InitDedup ==
    /\ \E urls \in SeqsUpTo(SourceURLs, MaxSources) :
         orch = [init_state(<<>>, "standard") EXCEPT
                    !.all_sources = [i \in 1..Len(urls) |-> [url |-> urls[i]]]]
    /\ opc = "synthesize"
    /\ batch = <<>>
    /\ seeded = <<>>
    /\ runs = [t \in Topics |-> 0]
    /\ ResIdle
    /\ SessIdle
    /\ AuxIdle

SpecDedup == InitDedup /\ [][SynthesizeSample]_vars

\* the positions of all_sources holding the first source of their normalized URL
first_occurrences(sources) ==
    {p \in 1..Len(sources) :
        \A q \in 1..(p - 1) : normalized_url(sources[q].url) # normalized_url(sources[p].url)}

\* used is the sources at the positions kept, in input order, with ids 1..n
kept_in_order(used, sources, kept) ==
    /\ Len(used) = Cardinality(kept)
    /\ \A p \in kept :
         LET i == Cardinality({q \in kept : q <= p})
         IN  used[i].url = sources[p].url /\ used[i].id = i
    /\ \A i, j \in 1..Len(used) :
         normalized_url(used[i].url) = normalized_url(used[j].url) => i = j

\* C13 as stated: the synthesized source list holds the first source of every
\* normalized URL of all_sources, in input order, with ids 1..n and no two entries of
\* equal normalized URL.
C13_DedupKeepsEveryFirst ==
    opc = "END" =>
        kept_in_order(orch.synthesis_result.sources_used, orch.all_sources,
                      first_occurrences(orch.all_sources))

\* C13: the synthesized source list holds the first source of every non-empty
\* normalized URL of all_sources, in input order, with ids 1..n and no two entries of
\* equal normalized URL; a source whose URL is empty once the fragment and the trailing
\* slashes are stripped is dropped.
C13_DedupKeepsFirstNonEmpty ==
    opc = "END" =>
        kept_in_order(orch.synthesis_result.sources_used, orch.all_sources,
                      {p \in first_occurrences(orch.all_sources) :
                         normalized_url(orch.all_sources[p].url) # <<>>})

\* a synthesis of three sources of which one has no URL left and two collapse to one
C13_Witness ==
    /\ opc = "END"
    /\ orch.all_sources = <<[url |-> URL_a_frag], [url |-> URL_slash], [url |-> URL_a_slash]>>
    /\ orch.synthesis_result.sources_used = <<[url |-> URL_a_frag, id |-> 1]>>

\* the state after a first dispatch that ran every topic of a plan of at most 3
\* sub-topics and in which every researcher succeeded with confidence >= 0.60
first_dispatch_all_confident(state) ==
    /\ state.iteration = 1
    /\ Len(state.sub_topics) <= 3
    /\ Len(state.completed) = Len(state.sub_topics)
    /\ \A i \in 1..Len(state.completed) : state.completed[i].confidence >= 60

\* the normalized URLs of the sources the researchers of the plan's topics returned
topic_source_urls(state) ==
    {normalized_url(src.url) :
        src \in UNION {Range(ResearcherSources[t]) : t \in Range(state.sub_topics)}}

C16_TeardownLeavesNothing ==
    \A s \in SessionIds :
       conn[s] = "closed" =>
           /\ s \notin log_callbacks
           /\ sessions[s] = NoServices
           /\ s \notin pipelines


\* the heading and findings of each completed topic, in order of completion
RECURSIVE headings_and_findings(_)
headings_and_findings(completed) ==
    IF completed = <<>> THEN <<>>
    ELSE <<"#", "#", " ", Head(completed).topic, "\n", "\n">> \o Head(completed).findings
           \o <<"\n", "\n">> \o headings_and_findings(Tail(completed))

synthesis_fell_back == opc = "END" /\ orch.synthesis_result.fallback

\* C23 (as stated): if the model call of synthesize fails, the run completes and the
\* synthesis_result's report is the concatenation of each completed topic's heading
\* and findings, its confidence is 0.3, its citations list is empty and sources_cited
\* is 0.
C23_FallbackIsTopicSections ==
    /\ [][(opc = "synthesize") => (opc' = "END")]_vars
    /\ [](synthesis_fell_back =>
            /\ orch.synthesis_result.report_text = headings_and_findings(orch.completed)
            /\ orch.synthesis_result.confidence = 30
            /\ orch.synthesis_result.citations = <<>>
            /\ orch.synthesis_result.sources_cited = 0)

\* C23 (amended): if the model call of synthesize fails, the run completes and the
\* synthesis_result's report is the title line of the query followed by the
\* concatenation of each completed topic's heading and findings, its confidence is
\* 0.3, its citations list is empty and sources_cited is 0.
C23_FallbackIsTitleAndTopicSections ==
    /\ [][(opc = "synthesize") => (opc' = "END")]_vars
    /\ [](synthesis_fell_back =>
            /\ orch.synthesis_result.report_text =
                 <<"#", " ">> \o orch.query \o <<"\n", "\n">>
                   \o headings_and_findings(orch.completed)
            /\ orch.synthesis_result.confidence = 30
            /\ orch.synthesis_result.citations = <<>>
            /\ orch.synthesis_result.sources_cited = 0)

\* a run that fell back with two completed topics, one of whose findings cites [1]
C23_Witness ==
    /\ synthesis_fell_back
    /\ Len(orch.completed) = 2
    /\ orch.completed[1].topic = "t1"
    /\ orch.completed[2].topic = "t2"
    /\ Len(orch.synthesis_result.report_text) > 20


\* ---- one call of create_plan ----
MaxResponseLines == 9

cpFrame == <<orchVars, resVars, sessVars, cacheVars, exportVars, wsVars, runVars, llmVars,
             gsVars>>

\* the lines a response of the model may hold: a blank one, a topic, a padded topic
ResponseLines == {<<" ">>, <<"a">>, <<" ", "b", " ">>}

\* "\n".join(lines)
RECURSIVE join_lines(_)
join_lines(lines) ==
    IF lines = <<>> THEN <<>>
    ELSE IF Len(lines) = 1 THEN lines[1]
    ELSE lines[1] \o <<"\n">> \o join_lines(Tail(lines))

PlanDepths == {"standard", "deep", "quick"}

InitCreatePlan ==
    /\ cp_depth \in PlanDepths
    /\ cp_response \in {join_lines(lines) : lines \in SeqsUpTo(ResponseLines, MaxResponseLines)}
    /\ cp_pc = "call"
    /\ cp_plan = NoCreatedPlan
    /\ GsIdle
    /\ CacheIdle
    /\ ExportIdle
    /\ WsIdle
    /\ RunIdle
    /\ LlmIdle
    /\ OrchIdle
    /\ ResIdle
    /\ SessIdle

\* create_plan returns its plan, or one of its two model calls raises
CreatePlan ==
    /\ cp_pc = "call"
    /\ \E raises \in BOOLEAN :
         IF raises
         THEN cp_pc' = "raised" /\ cp_plan' = cp_plan
         ELSE /\ cp_pc' = "returned"
              /\ cp_plan' = create_plan(ResearchQuery, cp_depth, cp_response)
    /\ UNCHANGED <<cp_depth, cp_response, cpFrame>>

SpecCreatePlan == InitCreatePlan /\ [][CreatePlan]_vars

\* the lines of a text that hold a character other than white space, stripped, in order
non_blank_lines(text) ==
    LET lines == split(text, "\n")
        kept == SelectSeq(lines, LAMBDA l : \E i \in 1..Len(l) : l[i] \notin {" ", "\n"})
    IN  [i \in 1..Len(kept) |-> strip(kept[i])]

\* C24: create_plan returns the one-element sub-topic list [query] whenever the response
\* holds no non-empty line, and otherwise the first N non-empty lines, or all of them
\* when there are fewer (N = the depth's max_searches); the list is never empty.
C24_PlanTopicsAreFirstLines ==
    cp_pc = "returned" =>
       LET lines == non_blank_lines(cp_response)
           N == IF cp_depth = "deep" THEN 8 ELSE 5
           sub_topics == cp_plan.sub_topics
       IN  /\ sub_topics # <<>>
           /\ lines = <<>> => sub_topics = <<ResearchQuery>>
           /\ lines # <<>> =>
                /\ Len(sub_topics) = Min(N, Len(lines))
                /\ \A i \in 1..Len(sub_topics) : sub_topics[i] = lines[i]

\* a deep plan cut to 8 topics from a response of 9 topics, the first one padded
C24_Witness ==
    /\ cp_pc = "returned"
    /\ cp_depth = "deep"
    /\ Len(non_blank_lines(cp_response)) = 9
    /\ Len(cp_plan.sub_topics) = 8
    /\ cp_plan.sub_topics[1] = <<"b">>


\* the positions of the retry queue whose wait is over and whose attempt is below 3:
\* the retries a dispatch call is to run
eligible_retries(state) ==
    {i \in 1..Len(state.retry_queue) :
        /\ state.iteration - state.retry_queue[i].last_attempt_at
             >= Pow2(state.retry_queue[i].attempt - 1)
        /\ state.retry_queue[i].attempt < 3}

\* C25: every dispatch batch holds at most 3 tasks, the retries of a batch come before
\* its new topics, the batch retries the first eligible retries (all of them when they
\* are fewer than 3), and it holds a new pending topic only if fewer than 3 eligible
\* retries exist.
C25_RetriesTakeSlotsFirst ==
    [][opc = "dispatch" =>
         LET retries == eligible_retries(orch)
             retry_tasks == {i \in 1..Len(batch') : batch'[i].is_retry}
             new_tasks == {i \in 1..Len(batch') : ~batch'[i].is_retry}
         IN  /\ Len(batch') <= 3
             /\ \A i \in retry_tasks, j \in new_tasks : i < j
             /\ Cardinality(retry_tasks) = Min(3, Cardinality(retries))
             /\ \A i \in retry_tasks :
                  \E q \in retries :
                     /\ Cardinality({r \in retries : r <= q}) = i
                     /\ orch.retry_queue[q].topic = batch'[i].topic
             /\ new_tasks # {} => Cardinality(retries) < 3
             /\ \A j \in new_tasks :
                  /\ batch'[j].topic \in Range(orch.sub_topics)
                  /\ batch'[j].topic \notin completed_topics(orch)
                  /\ batch'[j].topic \notin orch.failed_topics]_vars

\* a batch of three retries dispatched while a topic was pending
C25_Witness ==
    /\ opc = "critique"
    /\ Len(batch) = 3
    /\ \A i \in 1..3 : batch[i].is_retry
    /\ pending_topics(orch) # <<>>


\* C26: a dispatch call that runs a non-empty batch increments iteration by exactly 1;
\* a dispatch call whose batch is empty leaves iteration, completed, all_sources and
\* global_scraped_urls unchanged and changes at most failed_topics and retry_queue.
C26_DispatchFrame ==
    [][opc = "dispatch" =>
         IF batch' # <<>>
         THEN orch'.iteration = orch.iteration + 1
         ELSE /\ orch'.iteration = orch.iteration
              /\ orch'.completed = orch.completed
              /\ orch'.all_sources = orch.all_sources
              /\ orch'.global_scraped_urls = orch.global_scraped_urls
              /\ \A field \in DOMAIN orch \ {"failed_topics", "retry_queue"} :
                   orch'[field] = orch[field]]_vars

\* an empty batch dispatched after an earlier one, with a retry still waiting
C26_Witness ==
    /\ opc = "critique"
    /\ batch = <<>>
    /\ orch.iteration > 0
    /\ orch.retry_queue # <<>>


\* the attempt the claim gives the entry queued for the failure of task i: one more than
\* the attempt of the entry the task retried; 1 for a new task of a topic with no entry
\* in the queue; for a new task of a topic that has entries, 1 or one more than any of
\* theirs
claimed_attempts(state, tasks, i) ==
    IF tasks[i].is_retry THEN {retry_topics(state)[i].attempt + 1}
    ELSE {1} \cup {state.retry_queue[q].attempt + 1 :
                     q \in {r \in 1..Len(state.retry_queue) :
                              state.retry_queue[r].topic = tasks[i].topic}}

\* next is state after the tasks were reconciled, each by its own result, as claimed
reconciled_as_claimed(state, tasks, results, next) ==
    LET positions == [i \in 1..Len(tasks) |-> i]
        succeeded == SelectSeq(positions, LAMBDA i : results[i].kind = "ok")
        requeued == SelectSeq(positions, LAMBDA i : results[i].kind = "retriable")
        failed == {tasks[i].topic : i \in {j \in 1..Len(tasks) : results[j].kind = "terminal"}}
        waiting == SelectSeq(state.retry_queue, LAMBDA r : ~eligible(state, r))
    IN  /\ next.completed =
             state.completed \o
               [k \in 1..Len(succeeded) |->
                  [topic |-> tasks[succeeded[k]].topic,
                   findings |-> ResearcherFindings[tasks[succeeded[k]].topic],
                   confidence |-> results[succeeded[k]].confidence]]
        /\ next.failed_topics = state.failed_topics \cup permanently_failed(state) \cup failed
        /\ Len(next.retry_queue) = Len(waiting) + Len(requeued)
        /\ SubSeq(next.retry_queue, 1, Len(waiting)) = waiting
        /\ \A k \in 1..Len(requeued) :
             LET entry == next.retry_queue[Len(waiting) + k]
             IN  /\ entry.topic = tasks[requeued[k]].topic
                 /\ entry.last_attempt_at = state.iteration
                 /\ entry.attempt \in claimed_attempts(state, tasks, requeued[k])

\* C27: each task of a batch is reconciled by its own outcome, in submission order, into
\* exactly one of: appended to completed (success); re-queued with attempt = previous
\* attempt + 1 (1 on a first failure) and last_attempt_at = the current iteration
\* (retriable failure); added to failed_topics (any other failure).  A failing task never
\* keeps a sibling's success from being recorded.
C27_TasksReconciledIndependently ==
    [][(opc = "dispatch" /\ batch' # <<>>) =>
          \E results \in [1..Len(batch') -> Outcomes] :
             reconciled_as_claimed(orch, batch', results, orch')]_vars


\* the URLs the successful runs of a batch returned
scraped_by(tasks) ==
    UNION {{ResearcherSources[tasks[i].topic][k].url :
              k \in 1..Len(ResearcherSources[tasks[i].topic])} : i \in 1..Len(tasks)}

\* C28: all researchers of one batch are started with the same scraped-URL set, the
\* value of global_scraped_urls at the start of the dispatch call; what the batch
\* scraped is in global_scraped_urls only after the call, where the researchers of later
\* batches get it; and global_scraped_urls never loses an element within a run.
C28_BatchSeededWithSnapshot ==
    /\ [][opc = "dispatch" =>
            /\ Len(seeded') = Len(batch')
            /\ \A i \in 1..Len(batch') : seeded'[i] = orch.global_scraped_urls
            /\ orch'.global_scraped_urls \subseteq orch.global_scraped_urls \cup scraped_by(batch')
            /\ \A t \in completed_topics(orch') \ completed_topics(orch) :
                 \A k \in 1..Len(ResearcherSources[t]) :
                    ResearcherSources[t][k].url \in orch'.global_scraped_urls]_vars
    /\ [][orch.global_scraped_urls \subseteq orch'.global_scraped_urls]_vars

\* a batch of two researchers started with the URLs an earlier batch had scraped, which
\* then scraped more
C28_Witness ==
    /\ opc = "critique"
    /\ Len(batch) = 2
    /\ seeded[1] # {}
    /\ seeded[2] = seeded[1]
    /\ orch.global_scraped_urls # seeded[1]


\* C29: critique appends sub-topics only when at least one topic is completed, the mean
\* confidence of the completed topics is below 0.60 and iteration < min(max_iterations,
\* 4); it then appends at most 2 topics, none of them in sub_topics before; in every
\* other case sub_topics is left unchanged.
C29_CritiqueAppendsFewNewTopics ==
    [][opc = "critique" =>
         LET before == orch.sub_topics
             after == orch'.sub_topics
         IN  /\ Len(after) >= Len(before)
             /\ SubSeq(after, 1, Len(before)) = before
             /\ Len(after) - Len(before) <= 2
             /\ \A i \in (Len(before) + 1)..Len(after) : after[i] \notin Range(before)
             /\ after # before =>
                  /\ orch.completed # <<>>
                  /\ SumConf(orch.completed) < 60 * Len(orch.completed)
                  /\ orch.iteration < 4
                  /\ orch.iteration < orch.max_iterations]_vars

\* a plan of one topic to which a critique appended the same new topic twice
C29_Witness ==
    /\ opc = "dispatch"
    /\ orch.iteration >= 1
    /\ orch.sub_topics = <<"t1", "t2", "t2">>


\* ---- reflect_node applied to states that hold retrieved chunks ----
\* the retrieved chunks by their number, coverage score and whether an aspect is missing
ChunkSamples == [n : {0, 5, 6, 7}, coverage : {40, 50, 60, 70}, missing : BOOLEAN]

InitReflect ==
    /\ \E chunks \in ChunkSamples, iteration \in 0..1 :
         rs = [initial_state(<<>>) EXCEPT !.retrieved_chunks = chunks,
                                          !.iteration = iteration]
    /\ rpc = "reflect"
    /\ reflect_passes = 0
    /\ reflect_llm_calls = 0
    /\ reflect_reply = "none"
    /\ scrape_calls = <<>>
    /\ OrchIdle
    /\ SessIdle
    /\ AuxIdle

SpecReflect == InitReflect /\ [][Reflect]_vars

\* the reflection reflect_node appended after a model call
appended_reflection == rs.reflections[Len(rs.reflections)]

coverage_below_and_few_chunks ==
    /\ (IF rs.retrieved_chunks.n = 0 THEN 0 ELSE rs.retrieved_chunks.coverage) < 60
    /\ rs.retrieved_chunks.n < 7

C31_AttemptedUrlsMarkedOnce ==
    [][rpc = "scrape_index" =>
         IF scrape_calls' = scrape_calls
         THEN urls_to_scrape(rs) = {} /\ rs' = rs
         ELSE LET call == scrape_calls'[Len(scrape_calls')]
                  attempted == call.to_scrape
              IN  /\ Len(scrape_calls') = Len(scrape_calls) + 1
                  /\ Len(attempted) \in 1..SCRAPE_BATCH
                  /\ \A i \in 1..Len(attempted) :
                        /\ attempted[i] \notin Range(rs.scraped_urls)
                        /\ attempted[i] \in Range(rs'.scraped_urls)
                        /\ \A k \in 1..Len(scrape_calls) :
                              attempted[i] \notin Range(scrape_calls[k].to_scrape)
                        /\ \A j \in 1..Len(attempted) : attempted[j] = attempted[i] => j = i
                  /\ call.raised => /\ rs'.chunks_indexed = rs.chunks_indexed
                                    /\ rs'.scraped_content = rs.scraped_content]_vars

\* a second scrape call has run after a first one that raised, and the second search
\* had found the first call's URL again
C31_Witness ==
    /\ rpc = "retrieve"
    /\ Len(scrape_calls) = 2
    /\ scrape_calls[1].raised
    /\ Cardinality({i \in 1..Len(rs.sources) : rs.sources[i] = scrape_calls[1].to_scrape[1]}) >= 2
    /\ rs.chunks_indexed > 0


(***************************************************************************)
(* The sweep of old sessions.                                              *)
(***************************************************************************)
\* the sessions cleanup_old_sessions(SWEEP_MAX_AGE) is to evict at time t: those
\* registered whose age t - created_at exceeds the threshold
older_than_max_age(t) ==
    {sid \in SessionIds :
        sessions[sid] # NoServices /\ t - sessions[sid].created_at > SWEEP_MAX_AGE}

\* the sweep evicts exactly the sessions older than the threshold
sweep_evicts_exactly_old ==
    \A sid \in SessionIds :
        IF sid \in older_than_max_age(now')
        THEN sessions'[sid] = NoServices /\ sid \in cleaned'
        ELSE sessions'[sid] = sessions[sid] /\ sid \notin cleaned'

\* C32: a cleanup_old_sessions call cleans up and evicts exactly the sessions whose age
\* (now - created_at) exceeds max_age; every other session stays registered with its
\* cache unchanged and with the collections of its RAG store still in its index.
C32_SweepEvictsOnlyOld ==
    [][now' # now =>
         /\ sweep_evicts_exactly_old
         /\ \A sid \in SessionIds \ older_than_max_age(now') :
               rag_collections(sessions', index', sid) = rag_collections(sessions, index, sid)]_vars


(***************************************************************************)
(* Topics across the dispatch calls of one run.                            *)
(***************************************************************************)
\* C33: no dispatch batch contains the same topic more than once (a topic run as an
\* eligible retry is not also run as a new pending topic in the same batch).
C33_BatchTopicsDistinct ==
    \A i, j \in 1..Len(batch) : batch[i].topic = batch[j].topic => i = j

\* the sources the researchers of the completed topics returned, each topic counted once
RECURSIVE sources_of_topics(_)
sources_of_topics(topics) ==
    IF topics = {} THEN 0
    ELSE LET t == CHOOSE x \in topics : TRUE
         IN  Len(ResearcherSources[t]) + sources_of_topics(topics \ {t})

\* C34: in every state of an orchestrator run each topic appears at most once in
\* completed, and all_sources holds the sources of each completed topic once.
C34_CompletedOnce ==
    /\ \A i, j \in 1..Len(orch.completed) :
          orch.completed[i].topic = orch.completed[j].topic => i = j
    /\ Len(orch.all_sources) = sources_of_topics(completed_topics(orch))

\* C35: in every state of an orchestrator run no topic is both in completed and in
\* failed_topics, and no step removes a topic from failed_topics.
C35_CompletedFailedDisjoint ==
    /\ [](completed_topics(orch) \cap orch.failed_topics = {})
    /\ [][orch.failed_topics \subseteq orch'.failed_topics]_vars

\* C36: a dispatch call runs no topic that is in completed or in failed_topics when it
\* starts, neither as a new topic nor as a retry.
C36_SettledNeverRunAgain ==
    [][opc = "dispatch" =>
         \A t \in completed_topics(orch) \cup orch.failed_topics :
             t \notin batch_topics(batch')]_vars

\* the entries a dispatch call ran: the retry tasks of its batch
entries_run(tasks) == Cardinality({k \in 1..Len(tasks) : tasks[k].is_retry})

\* the entries it left in the queue: those queued before the call (the call's own
\* entries carry the iteration it started at)
entries_kept(queue, iteration) ==
    Cardinality({k \in 1..Len(queue) : queue[k].last_attempt_at < iteration})

\* the entries it moved to failed_topics: those at the attempt cap that left the queue
entries_moved(queue, next) ==
    Cardinality({i \in 1..Len(queue) :
                    /\ queue[i].attempt >= MAX_RETRY_ATTEMPT
                    /\ queue[i] \notin Range(next.retry_queue)
                    /\ queue[i].topic \in next.failed_topics})

\* C37: every retry-queue entry present at the start of a dispatch call is, at its end,
\* exactly one of: run in the batch, moved to failed_topics, or still in the retry
\* queue; the three account for every entry, also when more than 3 are eligible.
C37_RetryEntriesAccounted ==
    [][opc = "dispatch" =>
         Len(orch.retry_queue) = entries_run(batch')
                                   + entries_moved(orch.retry_queue, orch')
                                   + entries_kept(orch'.retry_queue, orch.iteration)]_vars


(***************************************************************************)
(* Sessions after their teardown, and open sessions under the sweep.       *)
(***************************************************************************)
\* C38: once a connection's teardown has cleaned up its session, the session manager
\* never again holds a SessionServices for that session id, whatever the other
\* connections' running pipeline operations and their accessor calls do.
C38_TornDownSessionStaysGone ==
    \A s \in torn_down : sessions[s] = NoServices


\* C40: the periodic sweep never cleans up or evicts the SessionServices of a session
\* whose WebSocket connection is still open, in particular not while one of the
\* session's pipeline operations is in flight.
C40_SweepSparesOpenSessions ==
    [][now' # now =>
         \A s \in SessionIds :
             conn[s] = "open" => (s \notin cleaned' /\ sessions'[s] = sessions[s])]_vars


(***************************************************************************)
(* Export requests during and after a research run.                        *)
(***************************************************************************)
\* C39: whenever the client has been sent the complete event of a research run
\* (streaming or buffered), an export request for the session handled afterwards is
\* not answered 404, and the report it returns is that run's, not an earlier run's.
C39_ExportReturnsCompletedRun ==
    (run_export.status # 0 /\ run_complete # <<>>) =>
        /\ run_export.status # 404
        /\ run_export.status = 200 => run_export.result = run_complete[Len(run_complete)]

=============================================================================
